---------------------------- MODULE Spec2Model ----------------------------
(***************************************************************************)
(* Model of the bank chatbot microservice (Overbugger/Anthos-ai).          *)
(*                                                                         *)
(*   controller  (src/unnamed/part_000, from line 54): the two pg pools,   *)
(*               testConnection, getTransactionData, the formatters.       *)
(*   index       (src/unnamed/part_003): filterTransactions,               *)
(*               processTransactionDataForAI and the POST /chat handler.   *)
(*                                                                         *)
(* Modelling conventions.                                                  *)
(*   - A JavaScript string is a sequence of one-character strings, so that *)
(*     slice, toLowerCase and includes are computed and not assumed.       *)
(*   - A JavaScript value that may be a string, undefined or a number is a *)
(*     record [t, v]: Str(s), Undef, Num(n).                               *)
(*   - Money is an integer number of cents; NaN is the value NaN below.    *)
(*   - Model replies and log texts are opaque TLA+ strings.                *)
(***************************************************************************)
EXTENDS Integers, Sequences, FiniteSets, TLC

(***************************************************************************)
(* JavaScript values                                                       *)
(***************************************************************************)
Undef == [t |-> "undefined", v |-> <<>>]

Str(s) == [t |-> "string", v |-> s]

Num(n) == [t |-> "number", v |-> <<n>>]

IsString(x) == x.t = "string"

\* JavaScript truthiness of a value: undefined, "" and 0 are falsy.
Truthy(x) ==
    CASE x.t = "undefined" -> FALSE
      [] x.t = "string"    -> x.v # <<>>
      [] x.t = "number"    -> x.v # <<0>>
      [] OTHER             -> TRUE

IsSpace(c) == c = " "

RECURSIVE TrimLeft(_)
TrimLeft(s) ==
    IF s = <<>> THEN <<>>
    ELSE IF IsSpace(Head(s)) THEN TrimLeft(Tail(s)) ELSE s

RECURSIVE TrimRight(_)
TrimRight(s) ==
    IF s = <<>> THEN <<>>
    ELSE IF IsSpace(s[Len(s)]) THEN TrimRight(SubSeq(s, 1, Len(s) - 1)) ELSE s

\* String.prototype.trim
Trim(s) == TrimRight(TrimLeft(s))

\* String.prototype.slice(-4): the last four characters, or the whole string.
SliceLast4(s) == IF Len(s) <= 4 THEN s ELSE SubSeq(s, Len(s) - 3, Len(s))

(***************************************************************************)
(* Program constants                                                       *)
(***************************************************************************)
\* retryOptions.maxRetries
maxRetries == 3

\* retryOptions.retryDelay (ms)
retryDelay == 1000

\* retryOptions.timeout (ms)
timeout == 5000

Pools == {"ledger", "accounts"}

(***************************************************************************)
(* Bounds of the model                                                     *)
(***************************************************************************)
\* Most parts in the content of one model reply.
MaxParts == 2

\* Most rows the ledger query returns in the fetch model.
MaxRows == 3

\* The number of termination signals delivered to the process.
MaxSignals == 2

(***************************************************************************)
(* JavaScript numbers: a finite value in cents, or NaN                     *)
(***************************************************************************)
F(c) == [nan |-> FALSE, c |-> c]

NaN == [nan |-> TRUE, c |-> 0]

isNaN(x) == x.nan

\* a + b
Add(a, b) == IF a.nan \/ b.nan THEN NaN ELSE F(a.c + b.c)

\* -a
Neg(a) == IF a.nan THEN NaN ELSE F(0 - a.c)

Digits == <<"0", "1", "2", "3", "4", "5", "6", "7", "8", "9">>

IsDigit(ch) == \E i \in 1..10 : Digits[i] = ch

DigitVal(ch) == (CHOOSE i \in 1..10 : Digits[i] = ch) - 1

\* The longest prefix of s made of digits.
RECURSIVE DigitPrefix(_)
DigitPrefix(s) ==
    IF s = <<>> \/ ~IsDigit(Head(s)) THEN <<>>
    ELSE <<Head(s)>> \o DigitPrefix(Tail(s))

RECURSIVE DigitsValue(_, _)
DigitsValue(s, acc) ==
    IF s = <<>> THEN acc ELSE DigitsValue(Tail(s), acc * 10 + DigitVal(Head(s)))

\* parseFloat of a string: optional sign, digits, optional fraction; anything
\* after the number is ignored, and a string with no leading number is NaN.
\* The fraction is read to the cent (inputs carry at most two decimals).
ParseFloatChars(s) ==
    LET neg  == s # <<>> /\ Head(s) = "-"
        body == IF neg THEN Tail(s) ELSE s
        int  == DigitPrefix(body)
        rest == SubSeq(body, Len(int) + 1, Len(body))
        frac == IF rest # <<>> /\ Head(rest) = "." THEN DigitPrefix(Tail(rest)) ELSE <<>>
        f2   == SubSeq(frac \o <<"0", "0">>, 1, 2)
        mag  == DigitsValue(int, 0) * 100 + DigitsValue(f2, 0)
    IN  IF int = <<>> /\ frac = <<>> THEN NaN
        ELSE F(IF neg THEN 0 - mag ELSE mag)

\* parseFloat of a value: a number is itself, undefined is NaN.
parseFloat(x) ==
    CASE x.t = "number" -> F(x.v[1])
      [] x.t = "string" -> ParseFloatChars(x.v)
      [] OTHER          -> NaN

RECURSIVE NatToChars(_)
NatToChars(n) ==
    IF n < 10 THEN <<Digits[n + 1]>>
    ELSE NatToChars(n \div 10) \o <<Digits[(n % 10) + 1]>>

\* The text of a finite number in JSON, as JSON.stringify writes the payload:
\* the shortest decimal, without trailing zeros in the fraction.
JSONNumber(c) ==
    LET mag  == IF c < 0 THEN 0 - c ELSE c
        sign == IF c < 0 THEN <<"-">> ELSE <<>>
        int  == NatToChars(mag \div 100)
        d1   == Digits[((mag % 100) \div 10) + 1]
        d2   == Digits[(mag % 10) + 1]
    IN  IF mag % 100 = 0 THEN sign \o int
        ELSE IF mag % 10 = 0 THEN sign \o int \o <<".", d1>>
        ELSE sign \o int \o <<".", d1, d2>>

\* Number.prototype.toFixed(2) of a finite number of cents.
toFixed2(c) ==
    LET mag == IF c < 0 THEN 0 - c ELSE c
    IN  (IF c < 0 THEN <<"-">> ELSE <<>>)
        \o NatToChars(mag \div 100)
        \o <<".", Digits[((mag % 100) \div 10) + 1], Digits[(mag % 10) + 1]>>

\* formatCurrency of a JavaScript number
formatCurrency(amount) ==
    IF isNaN(amount) THEN <<"0", ".", "0", "0">> ELSE toFixed2(amount.c)

\* Mutant: the first four characters (slice(0, 4)).
getLastFourFromStart(accountNumber) ==
    IF ~Truthy(accountNumber) \/ ~IsString(accountNumber)
    THEN <<"*", "*", "*", "*">>
    ELSE SubSeq(accountNumber.v, 1, IF Len(accountNumber.v) < 4
                                    THEN Len(accountNumber.v) ELSE 4)

\* getLastFour
getLastFour(accountNumber) ==
    IF ~Truthy(accountNumber) \/ ~IsString(accountNumber)
    THEN <<"*", "*", "*", "*">>
    ELSE SliceLast4(accountNumber.v)

(***************************************************************************)
(* Dates: an instant is a number of milliseconds since the model's day 0   *)
(* (2024-01-01T00:00:00Z); a calendar date string is "2024-01-0d".         *)
(***************************************************************************)
DayMs == 24 * 60 * 60 * 1000

Days == 0..3

\* The ISO calendar date of day d.
DayString(d) == <<"2", "0", "2", "4", "-", "0", "1", "-", "0", Digits[d + 2]>>

\* formatDate: new Date(date).toISOString().split("T")[0]
formatDate(ts) == DayString(ts \div DayMs)

(***************************************************************************)
(* State                                                                   *)
(***************************************************************************)
VARIABLES
    \* --- the process and its environment
    generativeModel,     \* TRUE when the Vertex AI model was initialised
    tzOffset,            \* the server's local time minus UTC, in ms
    delivered,           \* the termination signals delivered, in order
    endCalls,            \* per pool, the number of end() invocations
    endPromise,          \* per closeConnections call, the state of its two end() promises
    closePc,             \* per closeConnections call: awaiting, returned
    serverClose,         \* per server.close call: closing, called
    exited,              \* TRUE once the process has exited
    exitCode,            \* the code it exited with
    \* --- the request and the /chat handler
    reqUserId,           \* req.body.userId
    reqQuestion,         \* req.body.question
    chatState,           \* RECEIVED, AWAIT_INITIAL, EXECUTING_TOOL, AWAIT_FINAL, DONE
    sent,                \* the messages sent to the model with chat.sendMessage
    functionCall,        \* the function call extracted from the first reply
    directTextResponse,  \* the text gathered from the first reply
    functionResponsePayload,
    responses,           \* the HTTP responses written to res
    firstReply,          \* what the model's first reply held, as received
    finalReply,          \* what the model's second reply held, as received
    \* --- getTransactionData
    gtdPc,               \* idle, probing, querying, returned, threw
    gtdAccount,          \* its accountId argument
    queryLog,            \* the queries issued with pool.query, in order
    transactionResult,   \* the settled ledger query
    userResult,          \* the settled identity query
    gtdResult,           \* the object returned
    gtdError,            \* the message of the error thrown
    \* --- testConnection, per pool
    tcPc,                \* idle, race, query, delay, done
    attempts,            \* its local variable
    tcResult,            \* none, true, false
    connectCalls,        \* pool.connect() calls made by this call
    orphaned,            \* connects still pending after their race was lost
    held,                \* clients handed out and not yet released
    delays               \* the backoff delays waited, in order

vars ==
    <<generativeModel, tzOffset, delivered, endCalls, endPromise, closePc,
      serverClose, exited, exitCode, reqUserId, reqQuestion, chatState, sent,
      functionCall, directTextResponse, functionResponsePayload, responses,
      firstReply, finalReply,
      gtdPc, gtdAccount, queryLog, transactionResult, userResult, gtdResult,
      gtdError, tcPc, attempts, tcResult, connectCalls, orphaned, held, delays>>

shutdownVars ==
    <<delivered, endCalls, endPromise, closePc, serverClose, exited, exitCode>>

envVars == <<generativeModel, tzOffset, shutdownVars>>

reqVars == <<reqUserId, reqQuestion>>

chatVars ==
    <<chatState, sent, functionCall, directTextResponse,
      functionResponsePayload, responses, firstReply, finalReply>>

gtdVars ==
    <<gtdPc, gtdAccount, queryLog, transactionResult, userResult, gtdResult,
      gtdError>>

tcVars == <<tcPc, attempts, tcResult, connectCalls, orphaned, held, delays>>

\* The process after startup: no signal delivered, the pools open.
ProcessRunning ==
    /\ delivered = <<>>
    /\ endCalls = [p \in Pools |-> 0]
    /\ endPromise = <<>>
    /\ closePc = <<>>
    /\ serverClose = <<>>
    /\ exited = FALSE
    /\ exitCode = 0

(***************************************************************************)
(* getTransactionData: normalising the ledger rows                         *)
(*                                                                         *)
(* A ledger row is [timestamp, amount, from_acct, to_acct]: timestamp an   *)
(* instant, the other three JavaScript values as pg returns them.          *)
(***************************************************************************)
\* x || "" for a column that holds a string or NULL
OrEmpty(x) == IF Truthy(x) THEN x.v ELSE <<>>

\* parseFloat(row.amount || 0)
RowAmount(row) == IF Truthy(row.amount) THEN parseFloat(row.amount) ELSE F(0)

\* Mutant: the direction read from the destination column.
RowIsDebitByDestination(row, accountId) == row.to_acct = accountId

\* row.from_acct === accountId
RowIsDebit(row, accountId) == row.from_acct = accountId

\* Mutant: the parsed amount stored as it is, NaN included.
ProcessRowKeepsNaN(row, accountId) ==
    LET amount == RowAmount(row)
    IN  [transactionDate     |-> row.timestamp,
         formattedDate       |-> formatDate(row.timestamp),
         amount              |-> amount,
         fromAccount         |-> OrEmpty(row.from_acct),
         toAccount           |-> OrEmpty(row.to_acct),
         type                |-> IF RowIsDebit(row, accountId) THEN "Debit" ELSE "Credit",
         fromAccountLastFour |-> getLastFour(row.from_acct),
         toAccountLastFour   |-> getLastFour(row.to_acct),
         formattedAmount     |-> formatCurrency(amount),
         category            |-> Undef,
         transactionType     |-> Undef,
         description         |-> Undef]

\* The object built for one row by the map callback. The literal has no
\* category, transactionType or description property: reading one of them
\* from the object gives undefined.
ProcessRow(row, accountId) ==
    LET amount == RowAmount(row)
    IN  [transactionDate     |-> row.timestamp,
         formattedDate       |-> formatDate(row.timestamp),
         amount              |-> IF isNaN(amount) THEN F(0) ELSE amount,
         fromAccount         |-> OrEmpty(row.from_acct),
         toAccount           |-> OrEmpty(row.to_acct),
         type                |-> IF RowIsDebit(row, accountId) THEN "Debit" ELSE "Credit",
         fromAccountLastFour |-> getLastFour(row.from_acct),
         toAccountLastFour   |-> getLastFour(row.to_acct),
         formattedAmount     |-> formatCurrency(amount),
         category            |-> Undef,
         transactionType     |-> Undef,
         description         |-> Undef]

\* transactions.map(...)
MapRows(rows, accountId) == [i \in 1..Len(rows) |-> ProcessRow(rows[i], accountId)]

\* The contribution of one transaction to the balance.
SignedAmount(transaction, accountId) ==
    IF Str(transaction.fromAccount) = accountId
    THEN Neg(transaction.amount)
    ELSE transaction.amount

\* Mutant: the balance folded from the oldest transaction (the list reversed).
RECURSIVE BalanceFromOldest(_, _, _)
BalanceFromOldest(txs, accountId, i) ==
    IF i > Len(txs) THEN F(0)
    ELSE Add(BalanceFromOldest(txs, accountId, i + 1), SignedAmount(txs[i], accountId))

\* The value of the variable balance after the first i callbacks of forEach.
RECURSIVE BalanceAfter(_, _, _)
BalanceAfter(txs, accountId, i) ==
    IF i = 0 THEN F(0)
    ELSE Add(BalanceAfter(txs, accountId, i - 1), SignedAmount(txs[i], accountId))

\* processedTransactions after the forEach that sets balance.
WithBalances(txs, accountId) ==
    [i \in 1..Len(txs) |->
        txs[i] @@ [balance          |-> BalanceAfter(txs, accountId, i),
                   formattedBalance |-> formatCurrency(BalanceAfter(txs, accountId, i))]]

\* The transactions of the object getTransactionData returns for these rows.
ProcessedTransactions(rows, accountId) ==
    WithBalances(MapRows(rows, accountId), accountId)

\* `${firstname} ${lastname}`.trim() || "Unknown"
AccountOwner(userData) ==
    LET name == Trim(userData.firstname \o <<" ">> \o userData.lastname)
    IN  IF name = <<>> THEN <<"U", "n", "k", "n", "o", "w", "n">> ELSE name

(***************************************************************************)
(* filterTransactions and processTransactionDataForAI                      *)
(***************************************************************************)
Upper == <<"A", "B", "C", "D", "E", "F", "G", "H", "I", "J", "K", "L", "M",
           "N", "O", "P", "Q", "R", "S", "T", "U", "V", "W", "X", "Y", "Z">>

Lower == <<"a", "b", "c", "d", "e", "f", "g", "h", "i", "j", "k", "l", "m",
           "n", "o", "p", "q", "r", "s", "t", "u", "v", "w", "x", "y", "z">>

LowerChar(ch) ==
    IF \E i \in 1..26 : Upper[i] = ch
    THEN Lower[CHOOSE i \in 1..26 : Upper[i] = ch]
    ELSE ch

\* String.prototype.toLowerCase
toLowerCase(s) == [i \in 1..Len(s) |-> LowerChar(s[i])]

\* String.prototype.includes
includes(s, sub) ==
    \E i \in 0..(Len(s) - Len(sub)) : SubSeq(s, i + 1, i + Len(sub)) = sub

\* new Date("YYYY-MM-DD").getTime(): UTC midnight of that day; NaN (Invalid
\* Date) for a string that is no date of the model's calendar.
DateOf(s) ==
    IF \E d \in Days : DayString(d) = s
    THEN F((CHOOSE d \in Days : DayString(d) = s) * DayMs)
    ELSE NaN

\* floor(a / b) for b > 0
FloorDiv(a, b) == IF a >= 0 THEN a \div b ELSE 0 - ((0 - a + b - 1) \div b)

\* date.setHours(0, 0, 0, 0): the start of the local calendar day of the instant
StartOfLocalDay(t) ==
    IF isNaN(t) THEN NaN
    ELSE F(FloorDiv(t.c + tzOffset, DayMs) * DayMs - tzOffset)

\* date.setHours(23, 59, 59, 999): the last millisecond of that local day
EndOfLocalDay(t) ==
    IF isNaN(t) THEN NaN
    ELSE F(FloorDiv(t.c + tzOffset, DayMs) * DayMs + DayMs - 1 - tzOffset)

\* a < b on two Dates: false when either is an Invalid Date
DateLess(a, b) == ~a.nan /\ ~b.nan /\ a.c < b.c

\* Mutant: the merchant test skipped for a transaction without accounts, as
\* the other tests are skipped when the field is absent.
KeepTransactionMerchantIfPresent(tx, params) ==
    /\ ~( /\ Truthy(params.recipient)
          /\ tx.toAccount # <<>>
          /\ toLowerCase(tx.toAccount) # toLowerCase(params.recipient.v) )
    /\ ~( /\ Truthy(params.sender)
          /\ tx.fromAccount # <<>>
          /\ toLowerCase(tx.fromAccount) # toLowerCase(params.sender.v) )
    /\ ( (Truthy(params.merchantName) /\ (tx.fromAccount # <<>> \/ tx.toAccount # <<>>)) =>
            \/ includes(toLowerCase(tx.fromAccount), toLowerCase(params.merchantName.v))
            \/ includes(toLowerCase(tx.toAccount), toLowerCase(params.merchantName.v)) )
    /\ ( Truthy(params.startDate) =>
            ~DateLess(F(tx.transactionDate), StartOfLocalDay(DateOf(params.startDate.v))) )
    /\ ( Truthy(params.endDate) =>
            ~DateLess(EndOfLocalDay(DateOf(params.endDate.v)), F(tx.transactionDate)) )
    /\ ~( /\ Truthy(params.category)
          /\ Truthy(tx.category)
          /\ toLowerCase(tx.category.v) # toLowerCase(params.category.v) )
    /\ ~( /\ Truthy(params.transactionType)
          /\ Truthy(tx.transactionType)
          /\ toLowerCase(tx.transactionType.v) # toLowerCase(params.transactionType.v) )

\* The callback of transactions.filter: TRUE keeps the transaction.
KeepTransaction(tx, params) ==
    /\ ~( /\ Truthy(params.recipient)
          /\ tx.toAccount # <<>>
          /\ toLowerCase(tx.toAccount) # toLowerCase(params.recipient.v) )
    /\ ~( /\ Truthy(params.sender)
          /\ tx.fromAccount # <<>>
          /\ toLowerCase(tx.fromAccount) # toLowerCase(params.sender.v) )
    /\ ( Truthy(params.merchantName) =>
            \/ ( tx.fromAccount # <<>> /\
                 includes(toLowerCase(tx.fromAccount), toLowerCase(params.merchantName.v)) )
            \/ ( tx.toAccount # <<>> /\
                 includes(toLowerCase(tx.toAccount), toLowerCase(params.merchantName.v)) ) )
    /\ ( Truthy(params.startDate) =>
            ~DateLess(F(tx.transactionDate), StartOfLocalDay(DateOf(params.startDate.v))) )
    /\ ( Truthy(params.endDate) =>
            ~DateLess(EndOfLocalDay(DateOf(params.endDate.v)), F(tx.transactionDate)) )
    /\ ~( /\ Truthy(params.category)
          /\ Truthy(tx.category)
          /\ toLowerCase(tx.category.v) # toLowerCase(params.category.v) )
    /\ ~( /\ Truthy(params.transactionType)
          /\ Truthy(tx.transactionType)
          /\ toLowerCase(tx.transactionType.v) # toLowerCase(params.transactionType.v) )

\* Mutant: the transactions kept, oldest first.
filterTransactionsOldestFirst(transactions, userId, params) ==
    LET kept == SelectSeq(transactions, LAMBDA tx : KeepTransaction(tx, params))
    IN  [i \in 1..Len(kept) |-> kept[Len(kept) + 1 - i]]

\* filterTransactions (userId is only logged)
filterTransactions(transactions, userId, params) ==
    SelectSeq(transactions, LAMBDA tx : KeepTransaction(tx, params))

sCount == Str(<<"c", "o", "u", "n", "t">>)

sTotalAmount == Str(<<"t", "o", "t", "a", "l", "_", "a", "m", "o", "u", "n", "t">>)

sList == Str(<<"l", "i", "s", "t">>)

sDebit == Str(<<"d", "e", "b", "i", "t">>)

sCredit == Str(<<"c", "r", "e", "d", "i", "t">>)

\* A message: a fixed text with the values interpolated into it.
Msg(text, a, b) == [text |-> text, a |-> a, b |-> b]

NoMsg == Msg("", <<>>, <<>>)

\* The result property of a payload: a list, or a number (a count n is the
\* JavaScript number n, F(100 * n) in hundredths).
RList(l) == [k |-> "list", list |-> l, num |-> F(0)]

RNum(x) == [k |-> "number", list |-> <<>>, num |-> x]

\* The message of the empty result: each later if overwrites the earlier one.
EmptyMessage(params) ==
    LET m0 == Msg("No transactions found matching your criteria.", <<>>, <<>>)
        m1 == IF Truthy(params.category)
              THEN Msg("No transactions found in the category.", params.category.v, <<>>)
              ELSE m0
        m2 == IF Truthy(params.merchantName)
              THEN Msg("No transactions found with.", params.merchantName.v, <<>>)
              ELSE m1
        m3 == IF Truthy(params.startDate) /\ Truthy(params.endDate)
              THEN Msg("No transactions found between.", params.startDate.v, params.endDate.v)
              ELSE m2
    IN  m3

\* parseFloat(tx.amount || 0) on a transaction's amount, a number
TxAmount(tx) == IF tx.amount.nan \/ tx.amount.c = 0 THEN F(0) ELSE tx.amount

\* Mutant: debits of the user subtracted from the total.
TotalStepSigned(sum, tx, userId, params) ==
    IF Str(tx.fromAccount) = userId THEN Add(sum, Neg(TxAmount(tx)))
    ELSE IF Str(tx.toAccount) = userId THEN Add(sum, TxAmount(tx))
    ELSE sum

\* The reducer of total_amount: the new sum after tx.
TotalStep(sum, tx, userId, params) ==
    IF Str(tx.fromAccount) = userId THEN Add(sum, TxAmount(tx))
    ELSE IF Str(tx.toAccount) = userId THEN Add(sum, TxAmount(tx))
    ELSE IF Truthy(params.transactionType)
         THEN IF /\ params.transactionType = sDebit
                 /\ tx.transactionType = sDebit
                 /\ Str(tx.fromAccount) = userId
              THEN Add(sum, TxAmount(tx))
              ELSE IF /\ params.transactionType = sCredit
                      /\ tx.transactionType = sCredit
                      /\ Str(tx.toAccount) = userId
                   THEN Add(sum, TxAmount(tx))
                   ELSE sum
         ELSE sum

RECURSIVE TotalOf(_, _, _, _)
TotalOf(txs, i, userId, params) ==
    IF i = 0 THEN F(0)
    ELSE TotalStep(TotalOf(txs, i - 1, userId, params), txs[i], userId, params)

\* The redacted view of one transaction in a list result.
ListEntry(tx) ==
    [date        |-> tx.formattedDate,
     description |-> tx.description,
     amount      |-> tx.formattedAmount,
     type        |-> tx.transactionType,
     from        |-> tx.fromAccountLastFour,
     to          |-> tx.toAccountLastFour]

FormattedList(txs) == [i \in 1..Len(txs) |-> ListEntry(txs[i])]

\* The branch summaryType === "list"
ListResult(filteredTx) ==
    [result  |-> RList(FormattedList(filteredTx)),
     unit    |-> "",
     message |-> Msg("Found matching transactions.", NatToChars(Len(filteredTx)), <<>>)]

\* Mutant: the fallback returning the list without the message.
FallbackResultNoMessage(filteredTx) ==
    [result  |-> RList([i \in 1..Len(filteredTx) |-> ListEntry(filteredTx[i])]),
     unit    |-> "",
     message |-> NoMsg]

\* The last else branch: an unexpected summaryType
FallbackResult(filteredTx) ==
    [result  |-> RList([i \in 1..Len(filteredTx) |-> ListEntry(filteredTx[i])]),
     unit    |-> "",
     message |-> Msg("Found matching transactions.", NatToChars(Len(filteredTx)), <<>>)]

\* Mutant: the summary type looked at before the empty result, so that an
\* empty count is the number 0.
processTransactionDataForAICountFirst(transactions, userId, params) ==
    LET filteredTx == filterTransactions(transactions, userId, params)
    IN  IF params.summaryType = sCount
        THEN [result |-> RNum(F(100 * Len(filteredTx))), unit |-> "count", message |-> NoMsg]
        ELSE IF Len(filteredTx) = 0
        THEN [result |-> RList(<<>>), unit |-> "", message |-> EmptyMessage(params)]
        ELSE IF params.summaryType = sTotalAmount
        THEN [result  |-> RNum(TotalOf(filteredTx, Len(filteredTx), userId, params)),
              unit    |-> "currency",
              message |-> NoMsg]
        ELSE IF params.summaryType = sList
        THEN ListResult(filteredTx)
        ELSE FallbackResult(filteredTx)

\* Mutant: the count taken of the transactions before filtering.
processTransactionDataForAICountsAll(transactions, userId, params) ==
    LET filteredTx == filterTransactions(transactions, userId, params)
    IN  IF Len(filteredTx) = 0
        THEN [result |-> RList(<<>>), unit |-> "", message |-> EmptyMessage(params)]
        ELSE IF params.summaryType = sCount
        THEN [result |-> RNum(F(100 * Len(transactions))), unit |-> "count", message |-> NoMsg]
        ELSE IF params.summaryType = sTotalAmount
        THEN [result  |-> RNum(TotalOf(filteredTx, Len(filteredTx), userId, params)),
              unit    |-> "currency",
              message |-> NoMsg]
        ELSE IF params.summaryType = sList
        THEN ListResult(filteredTx)
        ELSE FallbackResult(filteredTx)

\* processTransactionDataForAI: [result, unit, message]
processTransactionDataForAI(transactions, userId, params) ==
    LET filteredTx == filterTransactions(transactions, userId, params)
    IN  IF Len(filteredTx) = 0
        THEN [result |-> RList(<<>>), unit |-> "", message |-> EmptyMessage(params)]
        ELSE IF params.summaryType = sCount
        THEN [result |-> RNum(F(100 * Len(filteredTx))), unit |-> "count", message |-> NoMsg]
        ELSE IF params.summaryType = sTotalAmount
        THEN [result  |-> RNum(TotalOf(filteredTx, Len(filteredTx), userId, params)),
              unit    |-> "currency",
              message |-> NoMsg]
        ELSE IF params.summaryType = sList
        THEN ListResult(filteredTx)
        ELSE FallbackResult(filteredTx)

(***************************************************************************)
(* Inputs of the model                                                     *)
(***************************************************************************)
UserA == <<"A", "c", "1", "0", "0", "1">>

AcctB == <<"B", "o", "2", "0", "0", "2">>

AcctC == <<"C", "y", "3", "0", "0", "3">>

\* req.body.userId: a valid id, missing, blank, and not a string
UserIds == {Str(UserA), Undef, Str(<<>>), Str(<<" ", " ">>), Num(42)}

\* req.body.question
Questions == {Str(<<"h", "o", "w", "?">>), Undef, Str(<<" ">>), Num(7)}

Row(ts, amount, from, to) ==
    [timestamp |-> ts, amount |-> amount, from_acct |-> from, to_acct |-> to]

A100 == Str(<<"1", "0", "0", ".", "0", "0">>)

A50 == Str(<<"5", "0", ".", "0", "0">>)

A7 == Str(<<"7", ".", "2", "5">>)

ABad == Str(<<"a", "b", "c">>)

\* The contents of the transactions table, newest first.
\*   LedgerScenario: the two transactions of account A of the specification's
\*   scenario, and one between two other accounts.
LedgerScenario ==
    << Row(2 * DayMs + 5, A7, Str(AcctB), Str(AcctC)),
       Row(1 * DayMs, A50, Str(AcctB), Str(UserA)),
       Row(0, A100, Str(UserA), Str(AcctB)) >>

\*   LedgerOdd: an unparsable amount, a NULL amount and a NULL source account.
LedgerOdd ==
    << Row(3 * DayMs, ABad, Str(UserA), Str(AcctC)),
       Row(2 * DayMs, Undef, Undef, Str(UserA)),
       Row(1 * DayMs + 1, A7, Str(AcctC), Str(AcctB)) >>

LedgerTables == {<<>>, LedgerScenario, LedgerOdd}

\* SELECT ... WHERE (from_acct = $1 OR to_acct = $1) ORDER BY timestamp DESC
LedgerQuery(table, accountId) ==
    SelectSeq(table, LAMBDA r : r.from_acct = accountId \/ r.to_acct = accountId)

UserRow(accountid, firstname, lastname) ==
    [accountid |-> accountid, firstname |-> firstname, lastname |-> lastname]

\* The contents of the users table.
UsersTables ==
    { <<>>,
      << UserRow(Str(UserA), <<"A", "d", "a">>, <<"O", "b", "i">>),
         UserRow(Str(AcctB), <<"B", "e", "n">>, <<>>) >>,
      << UserRow(Str(UserA), <<>>, <<>>) >> }

\* SELECT firstname, lastname FROM users WHERE accountid = $1
UsersQuery(table, accountId) ==
    SelectSeq(table, LAMBDA r : r.accountid = accountId)

\* The messages of the errors a failed query rejects with.
QueryErrors ==
    { "connection terminated unexpectedly", "relation does not exist",
      "Database connection failed" }

(***************************************************************************)
(* testConnection(pool, name)                                              *)
(*                                                                         *)
(* One attempt races pool.connect() against a timer. The store decides     *)
(* which of the two settles first, and whether SELECT 1 succeeds.          *)
(***************************************************************************)
\* Mutant: the loop test off by one (attempts <= maxRetries).
TcCatchOffByOne(p) ==
    /\ attempts' = [attempts EXCEPT ![p] = @ + 1]
    /\ IF attempts[p] + 1 <= maxRetries
       THEN /\ delays' = [delays EXCEPT ![p] = Append(@, retryDelay * (attempts[p] + 1))]
            /\ tcPc' = [tcPc EXCEPT ![p] = "delay"]
            /\ tcResult' = tcResult
       ELSE /\ delays' = delays
            /\ tcPc' = [tcPc EXCEPT ![p] = "done"]
            /\ tcResult' = [tcResult EXCEPT ![p] = "false"]

\* Mutant: the same delay after every failed attempt (no growth with attempts).
TcCatchFixedDelay(p) ==
    /\ attempts' = [attempts EXCEPT ![p] = @ + 1]
    /\ IF attempts[p] + 1 < maxRetries
       THEN /\ delays' = [delays EXCEPT ![p] = Append(@, retryDelay)]
            /\ tcPc' = [tcPc EXCEPT ![p] = "delay"]
            /\ tcResult' = tcResult
       ELSE /\ delays' = delays
            /\ tcPc' = [tcPc EXCEPT ![p] = "done"]
            /\ tcResult' = [tcResult EXCEPT ![p] = "false"]

\* The catch block of one attempt, and the loop test that follows it:
\* attempts++, then either the backoff delay or the return of false.
TcCatch(p) ==
    /\ attempts' = [attempts EXCEPT ![p] = @ + 1]
    /\ IF attempts[p] + 1 < maxRetries
       THEN /\ delays' = [delays EXCEPT ![p] = Append(@, retryDelay * (attempts[p] + 1))]
            /\ tcPc' = [tcPc EXCEPT ![p] = "delay"]
            /\ tcResult' = tcResult
       ELSE /\ delays' = delays
            /\ tcPc' = [tcPc EXCEPT ![p] = "done"]
            /\ tcResult' = [tcResult EXCEPT ![p] = "false"]

\* pool.connect() resolves first: the client is held and SELECT 1 is sent.
ConnectResolves(p) ==
    /\ tcPc[p] = "race"
    /\ held' = [held EXCEPT ![p] = @ + 1]
    /\ tcPc' = [tcPc EXCEPT ![p] = "query"]
    /\ UNCHANGED <<attempts, tcResult, connectCalls, orphaned, delays>>
    /\ UNCHANGED <<envVars, reqVars, chatVars, gtdVars>>

\* pool.connect() rejects first.
ConnectRejects(p) ==
    /\ tcPc[p] = "race"
    /\ TcCatch(p)
    /\ UNCHANGED <<connectCalls, orphaned, held>>
    /\ UNCHANGED <<envVars, reqVars, chatVars, gtdVars>>

\* The timer fires first: the race rejects and the connect stays pending,
\* with nothing left that waits for it.
ConnectTimesOut(p) ==
    /\ tcPc[p] = "race"
    /\ orphaned' = [orphaned EXCEPT ![p] = @ + 1]
    /\ TcCatch(p)
    /\ UNCHANGED <<connectCalls, held>>
    /\ UNCHANGED <<envVars, reqVars, chatVars, gtdVars>>

\* A connect whose race was lost resolves: the pool hands out a client that
\* no code holds a reference to.
LateConnectResolves(p) ==
    /\ orphaned[p] > 0
    /\ orphaned' = [orphaned EXCEPT ![p] = @ - 1]
    /\ held' = [held EXCEPT ![p] = @ + 1]
    /\ UNCHANGED <<tcPc, attempts, tcResult, connectCalls, delays>>
    /\ UNCHANGED <<envVars, reqVars, chatVars, gtdVars>>

\* A connect whose race was lost rejects.
LateConnectRejects(p) ==
    /\ orphaned[p] > 0
    /\ orphaned' = [orphaned EXCEPT ![p] = @ - 1]
    /\ UNCHANGED <<tcPc, attempts, tcResult, connectCalls, held, delays>>
    /\ UNCHANGED <<envVars, reqVars, chatVars, gtdVars>>

\* SELECT 1 succeeds: finally releases the client, and true is returned.
ProbeQueryResolves(p) ==
    /\ tcPc[p] = "query"
    /\ held' = [held EXCEPT ![p] = @ - 1]
    /\ tcPc' = [tcPc EXCEPT ![p] = "done"]
    /\ tcResult' = [tcResult EXCEPT ![p] = "true"]
    /\ UNCHANGED <<attempts, connectCalls, orphaned, delays>>
    /\ UNCHANGED <<envVars, reqVars, chatVars, gtdVars>>

\* SELECT 1 fails: finally releases the client, the error is rethrown and
\* caught by the outer catch.
ProbeQueryRejects(p) ==
    /\ tcPc[p] = "query"
    /\ held' = [held EXCEPT ![p] = @ - 1]
    /\ TcCatch(p)
    /\ UNCHANGED <<connectCalls, orphaned>>
    /\ UNCHANGED <<envVars, reqVars, chatVars, gtdVars>>

\* The backoff delay is over: the loop starts the next attempt.
DelayElapses(p) ==
    /\ tcPc[p] = "delay"
    /\ tcPc' = [tcPc EXCEPT ![p] = "race"]
    /\ connectCalls' = [connectCalls EXCEPT ![p] = @ + 1]
    /\ UNCHANGED <<attempts, tcResult, orphaned, held, delays>>
    /\ UNCHANGED <<envVars, reqVars, chatVars, gtdVars>>

\* A step of a running testConnection call.
TestConnectionStep ==
    \E p \in Pools :
        \/ ConnectResolves(p)
        \/ ConnectRejects(p)
        \/ ConnectTimesOut(p)
        \/ ProbeQueryResolves(p)
        \/ ProbeQueryRejects(p)
        \/ DelayElapses(p)

\* A connect that lost its race settles, at any later time.
LateConnectStep ==
    \E p \in Pools :
        \/ LateConnectResolves(p)
        \/ LateConnectRejects(p)

(***************************************************************************)
(* getTransactionData({ accountId })                                       *)
(***************************************************************************)
Pending == [status |-> "pending", rows |-> <<>>, message |-> ""]

Fulfilled(rows) == [status |-> "fulfilled", rows |-> rows, message |-> ""]

Rejected(message) == [status |-> "rejected", rows |-> <<>>, message |-> message]

NoData == [accountOwner |-> <<>>, accountNumber |-> <<>>, transactions |-> <<>>]

\* An error message is the sequence of the texts it is put together from.
DbFailedMessage ==
    <<"Database connection failed", " after multiple attempts. Please try again later.">>

\* userData, from the settled identity query
UserData(result) ==
    IF result.status = "fulfilled" /\ Len(result.rows) > 0
    THEN result.rows[1]
    ELSE UserRow(Undef, <<>>, <<>>)

\* The object returned for a fulfilled ledger query (both return statements).
TransactionData(rows, settledUser, accountId) ==
    [accountOwner  |-> AccountOwner(UserData(settledUser)),
     accountNumber |-> getLastFour(accountId),
     transactions  |-> IF Len(rows) = 0 THEN <<>>
                       ELSE ProcessedTransactions(rows, accountId)]

\* The call: the argument check, then both probes are started together and
\* each runs up to its first await, the race of its first connect.
GtdCall(accountId) ==
    /\ gtdAccount' = accountId
    /\ IF ~Truthy(accountId)
       THEN /\ gtdPc' = "threw"
            /\ gtdError' = <<"'accountId' is required">>
            /\ UNCHANGED tcVars
       ELSE /\ gtdPc' = "probing"
            /\ gtdError' = gtdError
            /\ tcPc' = [p \in Pools |-> "race"]
            /\ connectCalls' = [p \in Pools |-> 1]
            /\ UNCHANGED <<attempts, tcResult, orphaned, held, delays>>
    /\ UNCHANGED <<queryLog, transactionResult, userResult, gtdResult>>

\* Mutant: the identity query is issued whatever its probe returned.
ProbesDoneQueriesBoth ==
    /\ gtdPc = "probing"
    /\ \A p \in Pools : tcPc[p] = "done"
    /\ IF tcResult["ledger"] # "true"
       THEN /\ gtdPc' = "threw"
            /\ gtdError' = DbFailedMessage
            /\ UNCHANGED <<queryLog, transactionResult, userResult>>
       ELSE /\ gtdPc' = "querying"
            /\ gtdError' = gtdError
            /\ transactionResult' = Pending
            /\ queryLog' = queryLog \o
                   << [pool |-> "ledger", param |-> gtdAccount],
                      [pool |-> "accounts", param |-> gtdAccount] >>
            /\ userResult' = Pending
    /\ UNCHANGED <<gtdAccount, gtdResult>>
    /\ UNCHANGED <<envVars, reqVars, chatVars, tcVars>>

\* Mutant: only the ledger probe is awaited before the queries are issued.
ProbesDoneLedgerOnly ==
    /\ gtdPc = "probing"
    /\ tcPc["ledger"] = "done"
    /\ IF tcResult["ledger"] # "true"
       THEN /\ gtdPc' = "threw"
            /\ gtdError' = DbFailedMessage
            /\ UNCHANGED <<queryLog, transactionResult, userResult>>
       ELSE /\ gtdPc' = "querying"
            /\ gtdError' = gtdError
            /\ transactionResult' = Pending
            /\ IF tcResult["accounts"] = "true"
               THEN /\ queryLog' = queryLog \o
                        << [pool |-> "ledger", param |-> gtdAccount],
                           [pool |-> "accounts", param |-> gtdAccount] >>
                    /\ userResult' = Pending
               ELSE /\ queryLog' = Append(queryLog,
                                          [pool |-> "ledger", param |-> gtdAccount])
                    /\ userResult' = Rejected("Accounts database not available")
    /\ UNCHANGED <<gtdAccount, gtdResult>>
    /\ UNCHANGED <<envVars, reqVars, chatVars, tcVars>>

\* Promise.all of the two probes has resolved.
ProbesDone ==
    /\ gtdPc = "probing"
    /\ \A p \in Pools : tcPc[p] = "done"
    /\ IF tcResult["ledger"] # "true"
       THEN /\ gtdPc' = "threw"
            /\ gtdError' = DbFailedMessage
            /\ UNCHANGED <<queryLog, transactionResult, userResult>>
       ELSE /\ gtdPc' = "querying"
            /\ gtdError' = gtdError
            /\ transactionResult' = Pending
            /\ IF tcResult["accounts"] = "true"
               THEN /\ queryLog' = queryLog \o
                        << [pool |-> "ledger", param |-> gtdAccount],
                           [pool |-> "accounts", param |-> gtdAccount] >>
                    /\ userResult' = Pending
               ELSE /\ queryLog' = Append(queryLog,
                                          [pool |-> "ledger", param |-> gtdAccount])
                    /\ userResult' = Rejected("Accounts database not available")
    /\ UNCHANGED <<gtdAccount, gtdResult>>
    /\ UNCHANGED <<envVars, reqVars, chatVars, tcVars>>

\* The ledger query settles: with the rows of the account, or with an error.
LedgerQuerySettles ==
    /\ gtdPc = "querying"
    /\ transactionResult.status = "pending"
    /\ \/ \E table \in LedgerTables :
            transactionResult' = Fulfilled(LedgerQuery(table, queryLog[1].param))
       \/ \E m \in QueryErrors : transactionResult' = Rejected(m)
    /\ UNCHANGED <<gtdPc, gtdAccount, queryLog, userResult, gtdResult, gtdError>>
    /\ UNCHANGED <<envVars, reqVars, chatVars, tcVars>>

\* The identity query settles.
UserQuerySettles ==
    /\ gtdPc = "querying"
    /\ userResult.status = "pending"
    /\ \/ \E table \in UsersTables :
            userResult' = Fulfilled(UsersQuery(table, queryLog[2].param))
       \/ \E m \in QueryErrors : userResult' = Rejected(m)
    /\ UNCHANGED <<gtdPc, gtdAccount, queryLog, transactionResult, gtdResult, gtdError>>
    /\ UNCHANGED <<envVars, reqVars, chatVars, tcVars>>

\* Mutant: Promise.all in place of Promise.allSettled, so that a rejected
\* identity query fails the call.
GtdSettledAll ==
    /\ gtdPc = "querying"
    /\ transactionResult.status # "pending"
    /\ userResult.status # "pending"
    /\ IF transactionResult.status = "rejected" \/ userResult.status = "rejected"
       THEN /\ gtdPc' = "threw"
            /\ gtdError' = <<"Failed to retrieve transaction data: ",
                             IF transactionResult.status = "rejected"
                             THEN transactionResult.message ELSE userResult.message>>
            /\ gtdResult' = gtdResult
       ELSE /\ gtdPc' = "returned"
            /\ gtdError' = gtdError
            /\ gtdResult' = TransactionData(transactionResult.rows, userResult, gtdAccount)
    /\ UNCHANGED <<gtdAccount, queryLog, transactionResult, userResult>>
    /\ UNCHANGED <<envVars, reqVars, chatVars, tcVars>>

\* Promise.allSettled has resolved: the result is built, or the error of the
\* ledger query is thrown and rewrapped by the catch block.
GtdSettled ==
    /\ gtdPc = "querying"
    /\ transactionResult.status # "pending"
    /\ userResult.status # "pending"
    /\ IF transactionResult.status = "rejected"
       THEN /\ gtdPc' = "threw"
            /\ gtdError' = <<"Failed to retrieve transaction data: ",
                             "Transaction query failed: ",
                             transactionResult.message>>
            /\ gtdResult' = gtdResult
       ELSE /\ gtdPc' = "returned"
            /\ gtdError' = gtdError
            /\ gtdResult' = TransactionData(transactionResult.rows, userResult, gtdAccount)
    /\ UNCHANGED <<gtdAccount, queryLog, transactionResult, userResult>>
    /\ UNCHANGED <<envVars, reqVars, chatVars, tcVars>>

(***************************************************************************)
(* The replies of the model (GenerateContentResponse)                      *)
(***************************************************************************)
NoArgs ==
    [accountId |-> Undef, summaryType |-> Undef, recipient |-> Undef,
     sender |-> Undef, startDate |-> Undef, endDate |-> Undef,
     category |-> Undef, transactionType |-> Undef, merchantName |-> Undef]

NoCall == [present |-> FALSE, name |-> "", args |-> NoArgs]

Call(name, args) == [present |-> TRUE, name |-> name, args |-> args]

\* A part of a candidate's content: its text and functionCall properties.
TextPart(text) == [text |-> text, functionCall |-> NoCall]

CallPart(text, call) == [text |-> text, functionCall |-> call]

\* response.candidates[0]: content and content.parts may be missing.
Candidate(hasContent, hasParts, parts) ==
    [hasContent |-> hasContent, hasParts |-> hasParts, parts |-> parts]

\* response: candidates may be missing or empty.
Reply(hasCandidates, candidates) ==
    [hasCandidates |-> hasCandidates, candidates |-> candidates]

\* The sequences over S of length at most n.
RECURSIVE SeqsUpTo(_, _)
SeqsUpTo(S, n) ==
    IF n = 0 THEN {<<>>}
    ELSE LET shorter == SeqsUpTo(S, n - 1)
         IN  shorter \cup {Append(q, x) : q \in shorter, x \in S}

RepliesOver(parts) ==
    { Reply(FALSE, <<>>), Reply(TRUE, <<>>),
      Reply(TRUE, <<Candidate(FALSE, FALSE, <<>>)>>),
      Reply(TRUE, <<Candidate(TRUE, FALSE, <<>>)>>) }
    \cup { Reply(TRUE, <<Candidate(TRUE, TRUE, ps)>>) : ps \in SeqsUpTo(parts, MaxParts) }

\* The arguments the model may put into a call in the request model.
CallArgs ==
    { [NoArgs EXCEPT !.accountId = a, !.summaryType = t] :
        a \in {Str(UserA), Str(AcctB)}, t \in {sCount, sTotalAmount, sList} }

FirstCalls ==
    { Call("getTransactionSummary", a) : a \in CallArgs }
    \cup { Call("getAccountBalance", [NoArgs EXCEPT !.accountId = Str(AcctB)]) }

FirstParts ==
    { TextPart(""), TextPart("Hello. ") }
    \cup { CallPart("", c) : c \in FirstCalls }
    \cup { CallPart("Let me check. ", Call("getTransactionSummary",
                [NoArgs EXCEPT !.accountId = Str(UserA), !.summaryType = sCount])) }

FirstReplies == RepliesOver(FirstParts)

FinalParts == { TextPart(""), TextPart("Done.") }

FinalReplies == RepliesOver(FinalParts)

\* A reply as the log line "Model initial response" shows it: whether the
\* candidates, the content and the parts were there, whether a part held a
\* function call, and the texts of the parts in order (kept for the second
\* reply only).
NoReply == [received |-> FALSE, shape |-> "", hasCall |-> FALSE, hasText |-> FALSE,
            texts |-> <<>>]

ShapeOf(response) ==
    IF ~response.hasCandidates THEN "noCandidates"
    ELSE IF Len(response.candidates) = 0 THEN "emptyCandidates"
    ELSE IF ~response.candidates[1].hasContent THEN "noContent"
    ELSE IF ~response.candidates[1].hasParts THEN "noParts"
    ELSE "parts"

Received(response, keepTexts) ==
    LET ps == IF ShapeOf(response) = "parts" THEN response.candidates[1].parts ELSE <<>>
    IN  [received |-> TRUE,
         shape    |-> ShapeOf(response),
         hasCall  |-> \E i \in 1..Len(ps) : ps[i].functionCall.present,
         hasText  |-> \E i \in 1..Len(ps) : ps[i].text # "",
         texts    |-> IF keepTexts THEN [i \in 1..Len(ps) |-> ps[i].text] ELSE <<>>]

\* The parts the loops run over: none unless candidates, content and parts exist.
PartsOf(response) ==
    IF response.hasCandidates /\ Len(response.candidates) > 0
    THEN LET candidate == response.candidates[1]
         IN  IF candidate.hasContent /\ candidate.hasParts
             THEN candidate.parts
             ELSE <<>>
    ELSE <<>>

\* Mutant: the loop does not stop at a function call, and a text found in
\* the parts makes the function call be dropped.
RECURSIVE ExtractFromTextWins(_, _, _)
ExtractFromTextWins(parts, i, text) ==
    LET rest == IF i > Len(parts) THEN [functionCall |-> NoCall, text |-> text]
                ELSE ExtractFromTextWins(parts, i + 1,
                        IF parts[i].text # "" THEN text \o parts[i].text ELSE text)
    IN  IF i > Len(parts) THEN rest
        ELSE IF rest.text # "" THEN [functionCall |-> NoCall, text |-> rest.text]
        ELSE IF parts[i].functionCall.present
             THEN [functionCall |-> parts[i].functionCall, text |-> rest.text]
             ELSE rest

\* The first loop: [functionCall, text] after the parts from index i on, text
\* being directTextResponse so far. The loop ends at the first function call.
RECURSIVE ExtractFrom(_, _, _)
ExtractFrom(parts, i, text) ==
    IF i > Len(parts) THEN [functionCall |-> NoCall, text |-> text]
    ELSE IF parts[i].functionCall.present
         THEN [functionCall |-> parts[i].functionCall, text |-> text]
         ELSE ExtractFrom(parts, i + 1,
                          IF parts[i].text # "" THEN text \o parts[i].text ELSE text)

Extract(response) == ExtractFrom(PartsOf(response), 1, "")

\* The second loop: the texts of all parts, joined.
RECURSIVE TextFrom(_, _)
TextFrom(parts, i) ==
    IF i > Len(parts) THEN ""
    ELSE (IF parts[i].text # "" THEN parts[i].text ELSE "") \o TextFrom(parts, i + 1)

FinalText(response) == TextFrom(PartsOf(response), 1)

(***************************************************************************)
(* POST /chat                                                              *)
(***************************************************************************)
NoPayload ==
    [kind |-> "none", result |-> RList(<<>>), unit |-> "", message |-> NoMsg,
     error |-> <<>>, accountOwner |-> <<>>, accountNumber |-> <<>>,
     requestParams |-> NoArgs]

\* A message given to chat.sendMessage.
QuestionMessage(question) ==
    [kind |-> "question", question |-> question, name |-> "", response |-> NoPayload]

FunctionResponseMessage(name, payload) ==
    [kind |-> "functionResponse", question |-> Undef, name |-> name, response |-> payload]

\* res.status(status).json(...): an answer or an error text
HttpResponse(status, kind, text) == [status |-> status, kind |-> kind, text |-> text]

Respond(status, kind, text) ==
    /\ responses' = Append(responses, HttpResponse(status, kind, text))
    /\ chatState' = "DONE"

\* !x || typeof x !== "string" || x.trim() === ""
InvalidField(x) == ~Truthy(x) \/ ~IsString(x) \/ Trim(x.v) = <<>>

\* Mutant: the catch block looks for another text.
IsDatabaseUnavailableError(message) ==
    \E i \in 1..Len(message) : message[i] = "Database unavailable"

\* error.message.includes("Database connection failed")
IsDatabaseConnectionError(message) ==
    \E i \in 1..Len(message) : message[i] = "Database connection failed"

\* Mutant: the accountId taken from the model's arguments.
FetchAccountIdFromArgs == functionCall.args.accountId

\* The accountId the handler passes to getTransactionData.
FetchAccountId == reqUserId

\* The user id the handler passes to processTransactionDataForAI.
ProcessUserId == reqUserId

\* Mutant: the summary engine is called whatever the number of transactions.
SummaryPayloadAlwaysProcessed(data, args) ==
    LET r == processTransactionDataForAI(data.transactions, ProcessUserId, args)
    IN  [NoPayload EXCEPT
           !.kind = "summary",
           !.result = r.result,
           !.unit = r.unit,
           !.message = r.message,
           !.accountOwner = data.accountOwner,
           !.accountNumber = data.accountNumber,
           !.requestParams = args]

\* The payload built from the object getTransactionData returned.
SummaryPayload(data, args) ==
    IF Len(data.transactions) = 0
    THEN [NoPayload EXCEPT
            !.kind = "noTransactions",
            !.message = Msg("No transactions found for your account.", <<>>, <<>>),
            !.accountOwner = data.accountOwner,
            !.accountNumber = data.accountNumber]
    ELSE LET r == processTransactionDataForAI(data.transactions, ProcessUserId, args)
         IN  [NoPayload EXCEPT
                !.kind = "summary",
                !.result = r.result,
                !.unit = r.unit,
                !.message = r.message,
                !.accountOwner = data.accountOwner,
                !.accountNumber = data.accountNumber,
                !.requestParams = args]

\* Mutant: an error payload that does not name the function.
NotImplementedPayloadUnnamed(name) ==
    [NoPayload EXCEPT !.kind = "error", !.error = <<"Function is not implemented.">>]

\* The payload for a function the backend does not implement.
NotImplementedPayload(name) ==
    [NoPayload EXCEPT !.kind = "error",
                      !.error = <<"Function is not implemented in the backend.", name>>]

\* Mutant: the question validated before the userId.
ChatReceiveQuestionFirst ==
    /\ chatState = "RECEIVED"
    /\ IF InvalidField(reqQuestion)
       THEN /\ Respond(400, "error", "Invalid or missing question in request body.")
            /\ sent' = sent
       ELSE IF InvalidField(reqUserId)
       THEN /\ Respond(400, "error", "Invalid or missing userId in request body.")
            /\ sent' = sent
       ELSE IF ~generativeModel
       THEN /\ Respond(500, "error", "Chat service is not ready.")
            /\ sent' = sent
       ELSE /\ sent' = Append(sent, QuestionMessage(reqQuestion))
            /\ chatState' = "AWAIT_INITIAL"
            /\ responses' = responses
    /\ UNCHANGED <<functionCall, directTextResponse, functionResponsePayload,
                   firstReply, finalReply>>
    /\ UNCHANGED <<envVars, reqVars, gtdVars, tcVars>>

\* The request arrives: validation, the model check, and the first
\* chat.sendMessage(question).
ChatReceive ==
    /\ chatState = "RECEIVED"
    /\ IF InvalidField(reqUserId)
       THEN /\ Respond(400, "error", "Invalid or missing userId in request body.")
            /\ sent' = sent
       ELSE IF InvalidField(reqQuestion)
       THEN /\ Respond(400, "error", "Invalid or missing question in request body.")
            /\ sent' = sent
       ELSE IF ~generativeModel
       THEN /\ Respond(500, "error", "Chat service is not ready.")
            /\ sent' = sent
       ELSE /\ sent' = Append(sent, QuestionMessage(reqQuestion))
            /\ chatState' = "AWAIT_INITIAL"
            /\ responses' = responses
    /\ UNCHANGED <<functionCall, directTextResponse, functionResponsePayload,
                   firstReply, finalReply>>
    /\ UNCHANGED <<envVars, reqVars, gtdVars, tcVars>>

\* Mutant: the last branch missing, so that an empty text is answered.
ChatInitialReplyNoFallback ==
    /\ chatState = "AWAIT_INITIAL"
    /\ \E response \in FirstReplies :
         LET x == Extract(response)
         IN  /\ functionCall' = x.functionCall
             /\ directTextResponse' = x.text
             /\ firstReply' = Received(response, FALSE)
             /\ IF x.functionCall.present
                THEN /\ chatState' = "EXECUTING_TOOL"
                     /\ responses' = responses
                ELSE Respond(200, "answer", x.text)
    /\ UNCHANGED <<sent, functionResponsePayload, finalReply>>
    /\ UNCHANGED <<envVars, reqVars, gtdVars, tcVars>>

\* The first reply arrives and is inspected.
ChatInitialReply ==
    /\ chatState = "AWAIT_INITIAL"
    /\ \E response \in FirstReplies :
         LET x == Extract(response)
         IN  /\ functionCall' = x.functionCall
             /\ directTextResponse' = x.text
             /\ firstReply' = Received(response, FALSE)
             /\ IF x.functionCall.present
                THEN /\ chatState' = "EXECUTING_TOOL"
                     /\ responses' = responses
                ELSE IF x.text # ""
                THEN Respond(200, "answer", x.text)
                ELSE Respond(500, "error",
                        "Could not understand your request or retrieve relevant information.")
    /\ UNCHANGED <<sent, functionResponsePayload, finalReply>>
    /\ UNCHANGED <<envVars, reqVars, gtdVars, tcVars>>

\* chat.sendMessage rejects (either turn): the catch block answers 500.
ChatModelThrows ==
    /\ chatState \in {"AWAIT_INITIAL", "AWAIT_FINAL"}
    /\ Respond(500, "error", "An internal error occurred while processing your request.")
    /\ UNCHANGED <<sent, functionCall, directTextResponse, functionResponsePayload,
                   firstReply, finalReply>>
    /\ UNCHANGED <<envVars, reqVars, gtdVars, tcVars>>

\* The function the model asked for is dispatched: getTransactionData is
\* called, or the error payload is built and sent to the model at once.
ChatExecuteTool ==
    /\ chatState = "EXECUTING_TOOL"
    /\ gtdPc = "idle"
    /\ IF functionCall.name = "getTransactionSummary"
       THEN /\ GtdCall(FetchAccountId)
            /\ UNCHANGED <<chatState, sent, functionResponsePayload>>
       ELSE /\ functionResponsePayload' = NotImplementedPayload(functionCall.name)
            /\ sent' = Append(sent, FunctionResponseMessage(functionCall.name,
                                        NotImplementedPayload(functionCall.name)))
            /\ chatState' = "AWAIT_FINAL"
            /\ UNCHANGED <<gtdVars, tcVars>>
    /\ UNCHANGED <<functionCall, directTextResponse, responses, firstReply, finalReply>>
    /\ UNCHANGED <<envVars, reqVars>>

\* Mutant: getTransactionData not awaited, so that the payload is built from
\* the pending call and sent while the fetch is still running.
ChatToolReturnsEarly ==
    /\ chatState = "EXECUTING_TOOL"
    /\ gtdPc \in {"probing", "querying", "returned"}
    /\ LET payload == SummaryPayload(gtdResult, functionCall.args)
       IN  /\ functionResponsePayload' = payload
           /\ sent' = Append(sent, FunctionResponseMessage(functionCall.name, payload))
    /\ chatState' = "AWAIT_FINAL"
    /\ UNCHANGED <<functionCall, directTextResponse, responses, firstReply, finalReply>>
    /\ UNCHANGED <<envVars, reqVars, gtdVars, tcVars>>

\* getTransactionData returned: the payload is built and sent to the model.
ChatToolReturns ==
    /\ chatState = "EXECUTING_TOOL"
    /\ gtdPc = "returned"
    /\ LET payload == SummaryPayload(gtdResult, functionCall.args)
       IN  /\ functionResponsePayload' = payload
           /\ sent' = Append(sent, FunctionResponseMessage(functionCall.name, payload))
    /\ chatState' = "AWAIT_FINAL"
    /\ UNCHANGED <<functionCall, directTextResponse, responses, firstReply, finalReply>>
    /\ UNCHANGED <<envVars, reqVars, gtdVars, tcVars>>

\* Mutant: the 503 branch of the catch block without its return, so that the
\* 500 response follows it.
ChatToolThrowsFallsThrough ==
    /\ chatState = "EXECUTING_TOOL"
    /\ gtdPc = "threw"
    /\ chatState' = "DONE"
    /\ responses' =
          ( IF IsDatabaseConnectionError(gtdError)
            THEN Append(responses, HttpResponse(503, "error",
                    "The service is temporarily unavailable. Please try again in a few minutes."))
            ELSE responses )
          \o << HttpResponse(500, "error",
                    "An internal error occurred while processing your request.") >>
    /\ UNCHANGED <<sent, functionCall, directTextResponse, functionResponsePayload,
                   firstReply, finalReply>>
    /\ UNCHANGED <<envVars, reqVars, gtdVars, tcVars>>

\* getTransactionData threw: the catch block answers 503 or 500.
ChatToolThrows ==
    /\ chatState = "EXECUTING_TOOL"
    /\ gtdPc = "threw"
    /\ IF IsDatabaseConnectionError(gtdError)
       THEN Respond(503, "error",
               "The service is temporarily unavailable. Please try again in a few minutes.")
       ELSE Respond(500, "error",
               "An internal error occurred while processing your request.")
    /\ UNCHANGED <<sent, functionCall, directTextResponse, functionResponsePayload,
                   firstReply, finalReply>>
    /\ UNCHANGED <<envVars, reqVars, gtdVars, tcVars>>

\* Mutant: the second reply's text is answered even when it is empty.
ChatFinalReplyAnswersEmpty ==
    /\ chatState = "AWAIT_FINAL"
    /\ \E response \in FinalReplies :
         /\ finalReply' = Received(response, TRUE)
         /\ Respond(200, "answer", FinalText(response))
    /\ UNCHANGED <<sent, functionCall, directTextResponse, functionResponsePayload,
                   firstReply>>
    /\ UNCHANGED <<envVars, reqVars, gtdVars, tcVars>>

\* The second reply arrives: its text is the answer.
ChatFinalReply ==
    /\ chatState = "AWAIT_FINAL"
    /\ \E response \in FinalReplies :
         LET finalAnswer == FinalText(response)
         IN  /\ finalReply' = Received(response, TRUE)
             /\ IF finalAnswer # ""
                THEN Respond(200, "answer", finalAnswer)
                ELSE Respond(500, "error",
                        "Could not generate a final answer based on the data.")
    /\ UNCHANGED <<sent, functionCall, directTextResponse, functionResponsePayload,
                   firstReply>>
    /\ UNCHANGED <<envVars, reqVars, gtdVars, tcVars>>

(***************************************************************************)
(* The request model: one request, from its arrival to its response        *)
(***************************************************************************)
Init ==
    /\ generativeModel \in BOOLEAN
    /\ tzOffset = 0
    /\ ProcessRunning
    /\ reqUserId \in UserIds
    /\ reqQuestion \in Questions
    /\ chatState = "RECEIVED"
    /\ sent = <<>>
    /\ functionCall = NoCall
    /\ directTextResponse = ""
    /\ functionResponsePayload = NoPayload
    /\ responses = <<>>
    /\ firstReply = NoReply
    /\ finalReply = NoReply
    /\ gtdPc = "idle"
    /\ gtdAccount = Undef
    /\ queryLog = <<>>
    /\ transactionResult = Pending
    /\ userResult = Pending
    /\ gtdResult = NoData
    /\ gtdError = <<>>
    /\ tcPc = [p \in Pools |-> "idle"]
    /\ attempts = [p \in Pools |-> 0]
    /\ tcResult = [p \in Pools |-> "none"]
    /\ connectCalls = [p \in Pools |-> 0]
    /\ orphaned = [p \in Pools |-> 0]
    /\ held = [p \in Pools |-> 0]
    /\ delays = [p \in Pools |-> <<>>]

\* Late settlements of orphaned connects change only orphaned and held, which
\* no other action reads: they are explored in the probe model below.
Next ==
    \/ ChatReceive
    \/ ChatInitialReply
    \/ ChatModelThrows
    \/ ChatExecuteTool
    \/ TestConnectionStep
    \/ ProbesDone
    \/ LedgerQuerySettles
    \/ UserQuerySettles
    \/ GtdSettled
    \/ ChatToolReturns
    \/ ChatToolThrows
    \/ ChatFinalReply

Spec == Init /\ [][Next]_vars

(***************************************************************************)
(* The probe model: the two testConnection calls of one getTransactionData *)
(* call, with the connects that lost their race settling at any time.      *)
(***************************************************************************)
ProbeCall ==
    Call("getTransactionSummary",
         [NoArgs EXCEPT !.accountId = Str(UserA), !.summaryType = sCount])

\* The state ChatExecuteTool leaves for a valid request.
InitProbe ==
    /\ generativeModel = TRUE
    /\ tzOffset = 0
    /\ ProcessRunning
    /\ reqUserId = Str(UserA)
    /\ reqQuestion = Str(<<"h", "o", "w", "?">>)
    /\ chatState = "EXECUTING_TOOL"
    /\ sent = <<QuestionMessage(reqQuestion)>>
    /\ functionCall = ProbeCall
    /\ directTextResponse = ""
    /\ functionResponsePayload = NoPayload
    /\ responses = <<>>
    /\ firstReply = Received(Reply(TRUE, <<Candidate(TRUE, TRUE,
                                  <<CallPart("", ProbeCall)>>)>>), FALSE)
    /\ finalReply = NoReply
    /\ gtdPc = "probing"
    /\ gtdAccount = Str(UserA)
    /\ queryLog = <<>>
    /\ transactionResult = Pending
    /\ userResult = Pending
    /\ gtdResult = NoData
    /\ gtdError = <<>>
    /\ tcPc = [p \in Pools |-> "race"]
    /\ attempts = [p \in Pools |-> 0]
    /\ tcResult = [p \in Pools |-> "none"]
    /\ connectCalls = [p \in Pools |-> 1]
    /\ orphaned = [p \in Pools |-> 0]
    /\ held = [p \in Pools |-> 0]
    /\ delays = [p \in Pools |-> <<>>]

NextProbe ==
    \/ TestConnectionStep
    \/ LateConnectStep
    \/ ProbesDone

SpecProbe == InitProbe /\ [][NextProbe]_vars

\* The probe model with what the event loop guarantees: a timer that was set
\* fires (the timeout of an attempt, the backoff delay), and the
\* continuation of a settled Promise.all runs. Nothing makes a store answer.
SpecProbeLive ==
    /\ InitProbe
    /\ [][NextProbe]_vars
    /\ \A p \in Pools : WF_vars(ConnectTimesOut(p)) /\ WF_vars(DelayElapses(p))
    /\ WF_vars(ProbesDone)

(***************************************************************************)
(* The fetch model: getTransactionData from the moment its two queries     *)
(* have settled, for every list of ledger rows up to MaxRows.              *)
(***************************************************************************)
\* The rows the ledger query can return for account A, without timestamp:
\* debits, credits, a transfer to itself, a NULL source, unparsable and NULL
\* amounts.
RowKinds ==
    { [amount |-> A100, from_acct |-> Str(UserA), to_acct |-> Str(AcctB)],
      [amount |-> A7,   from_acct |-> Str(UserA), to_acct |-> Str(AcctB)],
      [amount |-> A50,  from_acct |-> Str(AcctB), to_acct |-> Str(UserA)],
      [amount |-> ABad, from_acct |-> Str(AcctB), to_acct |-> Str(UserA)],
      [amount |-> A50,  from_acct |-> Str(UserA), to_acct |-> Str(UserA)],
      [amount |-> A100, from_acct |-> Undef,      to_acct |-> Str(UserA)],
      [amount |-> Undef, from_acct |-> Str(UserA), to_acct |-> Str(AcctC)],
      [amount |-> A7,   from_acct |-> Str(AcctC), to_acct |-> Str(UserA)] }

\* ORDER BY timestamp DESC: the i-th of n rows is half a day newer than the next.
RowsOf(kinds) ==
    [i \in 1..Len(kinds) |->
        Row((Len(kinds) - i) * (DayMs \div 2),
            kinds[i].amount, kinds[i].from_acct, kinds[i].to_acct)]

RowLists == { RowsOf(kinds) : kinds \in SeqsUpTo(RowKinds, MaxRows) }

FetchCalls ==
    { Call("getTransactionSummary",
           [NoArgs EXCEPT !.accountId = Str(AcctB), !.summaryType = t]) :
        t \in {sCount, sTotalAmount, sList} }

InitFetch ==
    /\ generativeModel = TRUE
    /\ tzOffset = 0
    /\ ProcessRunning
    /\ reqUserId = Str(UserA)
    /\ reqQuestion = Str(<<"h", "o", "w", "?">>)
    /\ chatState = "EXECUTING_TOOL"
    /\ sent = <<QuestionMessage(reqQuestion)>>
    /\ functionCall \in FetchCalls
    /\ directTextResponse = ""
    /\ functionResponsePayload = NoPayload
    /\ responses = <<>>
    /\ firstReply = [NoReply EXCEPT !.received = TRUE, !.shape = "parts", !.hasCall = TRUE]
    /\ finalReply = NoReply
    /\ gtdPc = "querying"
    /\ gtdAccount = Str(UserA)
    /\ queryLog = << [pool |-> "ledger", param |-> gtdAccount],
                     [pool |-> "accounts", param |-> gtdAccount] >>
    /\ transactionResult \in { Fulfilled(rows) : rows \in RowLists }
    /\ userResult \in { Fulfilled(UsersQuery(table, gtdAccount)) : table \in UsersTables }
    /\ gtdResult = NoData
    /\ gtdError = <<>>
    /\ tcPc = [p \in Pools |-> "done"]
    /\ attempts = [p \in Pools |-> 0]
    /\ tcResult = [p \in Pools |-> "true"]
    /\ connectCalls = [p \in Pools |-> 1]
    /\ orphaned = [p \in Pools |-> 0]
    /\ held = [p \in Pools |-> 0]
    /\ delays = [p \in Pools |-> <<>>]

NextFetch ==
    \/ GtdSettled
    \/ ChatToolReturns

SpecFetch == InitFetch /\ [][NextFetch]_vars

(***************************************************************************)
(* The summary model: processTransactionDataForAI applied by the handler   *)
(* to what getTransactionData returns, for the arguments a model can send. *)
(***************************************************************************)
\* Rows of the transactions table, on three days. The sixth has no source
\* account (NULL). The fifth and the seventh involve account A on neither
\* side (the seventh has no account at all): the ledger query does not
\* return them for A, they are inputs of filterTransactions and
\* processTransactionDataForAI only.
SummaryRows ==
    { Row(2 * DayMs + 5, A7, Str(UserA), Str(AcctB)),
      Row(1 * DayMs + (DayMs \div 2), A50, Str(AcctB), Str(UserA)),
      Row(1 * DayMs, A100, Str(UserA), Str(AcctC)),
      Row(1000, A50, Str(AcctC), Str(UserA)),
      Row(500, A7, Str(AcctB), Str(AcctC)),
      Row(2 * DayMs, A100, Undef, Str(UserA)),
      Row(DayMs - 1, A7, Undef, Undef) }

\* ORDER BY timestamp DESC
NewestFirst(rows) ==
    \A i \in 1..(Len(rows) - 1) : rows[i].timestamp > rows[i + 1].timestamp

SummaryRowLists == { rows \in SeqsUpTo(SummaryRows, MaxRows) : NewestFirst(rows) }

OneOf(S) == {Undef} \cup { Str(s) : s \in S }

\* The arguments of getTransactionSummary: every filter absent or present,
\* a recipient in another letter case, a merchant that is part of an account
\* id, the three summary types, one the backend does not know, and none.
SummaryArgs ==
    { [accountId       |-> Str(AcctB),
       summaryType     |-> t,
       recipient       |-> r,
       sender          |-> s,
       startDate       |-> sd,
       endDate         |-> ed,
       category        |-> c,
       transactionType |-> tt,
       merchantName    |-> m] :
        t  \in {sCount, sTotalAmount, sList, Str(<<"a", "v", "g">>), Undef},
        r  \in OneOf({<<"b", "O", "2", "0", "0", "2">>}),
        s  \in OneOf({UserA}),
        sd \in OneOf({DayString(1)}),
        ed \in OneOf({DayString(1)}),
        c  \in OneOf({<<"f", "o", "o", "d">>}),
        tt \in {Undef, sDebit, sCredit},
        m  \in OneOf({<<"C", "Y", "3">>}) }

InitSummary ==
    /\ generativeModel = TRUE
    /\ tzOffset = 0
    /\ ProcessRunning
    /\ reqUserId = Str(UserA)
    /\ reqQuestion = Str(<<"h", "o", "w", "?">>)
    /\ chatState = "EXECUTING_TOOL"
    /\ sent = <<QuestionMessage(reqQuestion)>>
    /\ functionCall \in { Call("getTransactionSummary", a) : a \in SummaryArgs }
    /\ directTextResponse = ""
    /\ functionResponsePayload = NoPayload
    /\ responses = <<>>
    /\ firstReply = [NoReply EXCEPT !.received = TRUE, !.shape = "parts", !.hasCall = TRUE]
    /\ finalReply = NoReply
    /\ gtdPc = "querying"
    /\ gtdAccount = Str(UserA)
    /\ queryLog = << [pool |-> "ledger", param |-> gtdAccount],
                     [pool |-> "accounts", param |-> gtdAccount] >>
    /\ transactionResult \in { Fulfilled(rows) : rows \in SummaryRowLists }
    /\ userResult = Fulfilled(<<>>)
    /\ gtdResult = NoData
    /\ gtdError = <<>>
    /\ tcPc = [p \in Pools |-> "done"]
    /\ attempts = [p \in Pools |-> 0]
    /\ tcResult = [p \in Pools |-> "true"]
    /\ connectCalls = [p \in Pools |-> 1]
    /\ orphaned = [p \in Pools |-> 0]
    /\ held = [p \in Pools |-> 0]
    /\ delays = [p \in Pools |-> <<>>]

NextSummary ==
    \/ GtdSettled
    \/ ChatToolReturns

SpecSummary == InitSummary /\ [][NextSummary]_vars

(***************************************************************************)
(* The redaction model: getTransactionData over rows whose account columns *)
(* hold long, four-character, short and empty strings, NULL and a number,  *)
(* for callers whose own account number is long, four characters or short. *)
(***************************************************************************)
LongAccount == <<"1", "2", "3", "4", "5", "6", "7", "8", "9", "0">>

\* The values of an account column of a ledger row.
AccountNumbers ==
    { Str(LongAccount), Str(<<"7", "8", "9", "0">>), Str(<<"8", "9", "0">>),
      Str(<<"0">>), Str(<<>>), Undef, Num(1234567890) }

\* The userId of the request: it passed validation.
RedactAccounts ==
    { Str(LongAccount), Str(<<"7", "8", "9", "0">>), Str(<<"8", "9", "0">>) }

\* Rows of the account: it is the source or the destination.
RedactKinds(accountId) ==
    { [amount |-> A100, from_acct |-> x, to_acct |-> accountId] : x \in AccountNumbers }
    \cup
    { [amount |-> A50, from_acct |-> accountId, to_acct |-> x] : x \in AccountNumbers }

InitRedact ==
    /\ generativeModel = TRUE
    /\ tzOffset = 0
    /\ ProcessRunning
    /\ reqUserId \in RedactAccounts
    /\ reqQuestion = Str(<<"h", "o", "w", "?">>)
    /\ chatState = "EXECUTING_TOOL"
    /\ sent = <<QuestionMessage(reqQuestion)>>
    /\ functionCall = Call("getTransactionSummary", [NoArgs EXCEPT !.summaryType = sList])
    /\ directTextResponse = ""
    /\ functionResponsePayload = NoPayload
    /\ responses = <<>>
    /\ firstReply = [NoReply EXCEPT !.received = TRUE, !.shape = "parts", !.hasCall = TRUE]
    /\ finalReply = NoReply
    /\ gtdPc = "querying"
    /\ gtdAccount = reqUserId
    /\ queryLog = << [pool |-> "ledger", param |-> gtdAccount],
                     [pool |-> "accounts", param |-> gtdAccount] >>
    /\ transactionResult \in
          { Fulfilled(RowsOf(kinds)) : kinds \in SeqsUpTo(RedactKinds(reqUserId), 2) }
    /\ userResult = Fulfilled(<<>>)
    /\ gtdResult = NoData
    /\ gtdError = <<>>
    /\ tcPc = [p \in Pools |-> "done"]
    /\ attempts = [p \in Pools |-> 0]
    /\ tcResult = [p \in Pools |-> "true"]
    /\ connectCalls = [p \in Pools |-> 1]
    /\ orphaned = [p \in Pools |-> 0]
    /\ held = [p \in Pools |-> 0]
    /\ delays = [p \in Pools |-> <<>>]

NextRedact ==
    \/ GtdSettled
    \/ ChatToolReturns

SpecRedact == InitRedact /\ [][NextRedact]_vars

(***************************************************************************)
(* The date model: the date filters of filterTransactions for one fetched  *)
(* transaction at the instants around the day boundaries, on servers whose *)
(* local time is UTC, behind UTC and ahead of UTC.                         *)
(***************************************************************************)
HourMs == 60 * 60 * 1000

\* The server's local time minus UTC: the TZ of the process is not set by
\* the program or its image.
TzOffsets == {0, 0 - 5 * HourMs, HourMs}

\* The instants of the fetched transaction: the first and last millisecond
\* of days 1 and 2, the milliseconds next to them, and times in between.
DateInstants ==
    UNION { { d * DayMs - 1, d * DayMs, d * DayMs + HourMs - 1, d * DayMs + HourMs,
              d * DayMs + 5 * HourMs - 1, d * DayMs + 5 * HourMs,
              d * DayMs + 12 * HourMs, d * DayMs + 19 * HourMs,
              d * DayMs + 23 * HourMs - 1, d * DayMs + 23 * HourMs } : d \in {1, 2, 3} }

DateArgs ==
    { [NoArgs EXCEPT !.accountId = Str(UserA), !.summaryType = sList,
                     !.startDate = sd, !.endDate = ed] :
        sd \in OneOf({DayString(1), DayString(2)}),
        ed \in OneOf({DayString(1), DayString(2)}) }

InitDates ==
    /\ generativeModel = TRUE
    /\ tzOffset \in TzOffsets
    /\ ProcessRunning
    /\ reqUserId = Str(UserA)
    /\ reqQuestion = Str(<<"h", "o", "w", "?">>)
    /\ chatState = "EXECUTING_TOOL"
    /\ sent = <<QuestionMessage(reqQuestion)>>
    /\ functionCall \in { Call("getTransactionSummary", a) : a \in DateArgs }
    /\ directTextResponse = ""
    /\ functionResponsePayload = NoPayload
    /\ responses = <<>>
    /\ firstReply = [NoReply EXCEPT !.received = TRUE, !.shape = "parts", !.hasCall = TRUE]
    /\ finalReply = NoReply
    /\ gtdPc = "querying"
    /\ gtdAccount = Str(UserA)
    /\ queryLog = << [pool |-> "ledger", param |-> gtdAccount],
                     [pool |-> "accounts", param |-> gtdAccount] >>
    /\ transactionResult \in
          { Fulfilled(<<Row(t, A50, Str(AcctB), Str(UserA))>>) : t \in DateInstants }
    /\ userResult = Fulfilled(<<>>)
    /\ gtdResult = NoData
    /\ gtdError = <<>>
    /\ tcPc = [p \in Pools |-> "done"]
    /\ attempts = [p \in Pools |-> 0]
    /\ tcResult = [p \in Pools |-> "true"]
    /\ connectCalls = [p \in Pools |-> 1]
    /\ orphaned = [p \in Pools |-> 0]
    /\ held = [p \in Pools |-> 0]
    /\ delays = [p \in Pools |-> <<>>]

NextDates ==
    \/ GtdSettled
    \/ ChatToolReturns

SpecDates == InitDates /\ [][NextDates]_vars

(***************************************************************************)
(* Shutdown: the SIGINT and SIGTERM handlers of controller.js and of       *)
(* index.js, which are all registered in the one process (index.js         *)
(* requires controller.js first, so its handler runs first).               *)
(***************************************************************************)
Signals == {"SIGINT", "SIGTERM"}

\* process.exit(code): the first call ends the process.
Exit(code) ==
    /\ exited' = TRUE
    /\ exitCode' = code

\* A signal is delivered: the listeners run in the order of registration.
\*   controller.js: closeConnections() calls end() on both pools and awaits
\*   Promise.all of the two promises;
\*   index.js: server.close(callback).
SignalDelivered ==
    /\ ~exited
    /\ Len(delivered) < MaxSignals
    /\ \E sig \in Signals : delivered' = Append(delivered, sig)
    /\ endCalls' = [p \in Pools |-> endCalls[p] + 1]
    /\ endPromise' = Append(endPromise, [p \in Pools |-> "pending"])
    /\ closePc' = Append(closePc, "awaiting")
    /\ serverClose' = Append(serverClose, "closing")
    /\ UNCHANGED <<exited, exitCode>>
    /\ UNCHANGED <<generativeModel, tzOffset, reqVars, chatVars, gtdVars, tcVars>>

\* A pool's end() promise settles: the pool decides when, and whether it
\* is fulfilled or rejected.
EndSettles ==
    /\ ~exited
    /\ \E k \in 1..Len(endPromise), p \in Pools, outcome \in {"fulfilled", "rejected"} :
         /\ endPromise[k][p] = "pending"
         /\ endPromise' = [endPromise EXCEPT ![k][p] = outcome]
    /\ UNCHANGED <<delivered, endCalls, closePc, serverClose, exited, exitCode>>
    /\ UNCHANGED <<generativeModel, tzOffset, reqVars, chatVars, gtdVars, tcVars>>

\* Promise.all([ledgerPool.end(), accountsPool.end()]) is settled: fulfilled
\* when both are fulfilled, rejected as soon as one is rejected.
AllSettled(promises) ==
    \/ \A p \in Pools : promises[p] = "fulfilled"
    \/ \E p \in Pools : promises[p] = "rejected"

\* closeConnections returns (a rejection is caught and logged) and the
\* handler of controller.js calls process.exit(0).
CloseConnectionsReturns ==
    /\ ~exited
    /\ \E k \in 1..Len(closePc) :
         /\ closePc[k] = "awaiting"
         /\ AllSettled(endPromise[k])
         /\ closePc' = [closePc EXCEPT ![k] = "returned"]
    /\ Exit(0)
    /\ UNCHANGED <<delivered, endCalls, endPromise, serverClose>>
    /\ UNCHANGED <<generativeModel, tzOffset, reqVars, chatVars, gtdVars, tcVars>>

\* The callback of server.close runs. With an error (the server was already
\* closing) it calls process.exit(1). Without, it calls
\* dbController.closeDatabaseConnections, which controller.js does not
\* export: the TypeError rejects the callback's promise, nothing handles the
\* rejection, and the process ends with code 1.
ServerCloseCallback ==
    /\ ~exited
    /\ \E k \in 1..Len(serverClose) :
         /\ serverClose[k] = "closing"
         /\ serverClose' = [serverClose EXCEPT ![k] = "called"]
    /\ Exit(1)
    /\ UNCHANGED <<delivered, endCalls, endPromise, closePc>>
    /\ UNCHANGED <<generativeModel, tzOffset, reqVars, chatVars, gtdVars, tcVars>>

\* The shutdown model: an idle process that receives termination signals.
InitShutdown ==
    /\ generativeModel \in BOOLEAN
    /\ tzOffset = 0
    /\ ProcessRunning
    /\ reqUserId = Undef
    /\ reqQuestion = Undef
    /\ chatState = "RECEIVED"
    /\ sent = <<>>
    /\ functionCall = NoCall
    /\ directTextResponse = ""
    /\ functionResponsePayload = NoPayload
    /\ responses = <<>>
    /\ firstReply = NoReply
    /\ finalReply = NoReply
    /\ gtdPc = "idle"
    /\ gtdAccount = Undef
    /\ queryLog = <<>>
    /\ transactionResult = Pending
    /\ userResult = Pending
    /\ gtdResult = NoData
    /\ gtdError = <<>>
    /\ tcPc = [p \in Pools |-> "idle"]
    /\ attempts = [p \in Pools |-> 0]
    /\ tcResult = [p \in Pools |-> "none"]
    /\ connectCalls = [p \in Pools |-> 0]
    /\ orphaned = [p \in Pools |-> 0]
    /\ held = [p \in Pools |-> 0]
    /\ delays = [p \in Pools |-> <<>>]

NextShutdown ==
    \/ SignalDelivered
    \/ EndSettles
    \/ CloseConnectionsReturns
    \/ ServerCloseCallback

SpecShutdown == InitShutdown /\ [][NextShutdown]_vars

(***************************************************************************)
(* Properties                                                              *)
(***************************************************************************)
RECURSIVE JoinTexts(_)
JoinTexts(texts) ==
    IF texts = <<>> THEN "" ELSE Head(texts) \o JoinTexts(Tail(texts))

Unknown == <<"U", "n", "k", "n", "o", "w", "n">>

NoStoreAccess ==
    /\ queryLog = <<>>
    /\ gtdPc = "idle"
    /\ \A p \in Pools : connectCalls[p] = 0 /\ tcPc[p] = "idle"

\* The account ids a model could put into its arguments.
ModelAccountIds == {Undef, Str(UserA), Str(AcctB), Str(AcctC)}

\* C1. In POST /chat the account whose rows are fetched and aggregated is
\* always the request's userId: every store query carries the userId, the
\* rows returned involve it, and the payload's result and message are the
\* same whatever accountId the model put into its arguments.
C1_ModelAccountIdNeverSelectsData ==
    /\ \A i \in 1..Len(queryLog) : queryLog[i].param = reqUserId
    /\ (gtdPc # "idle" => gtdAccount = reqUserId)
    /\ \A i \in 1..Len(transactionResult.rows) :
          \/ transactionResult.rows[i].from_acct = reqUserId
          \/ transactionResult.rows[i].to_acct = reqUserId
    /\ ( functionResponsePayload.kind \in {"summary", "noTransactions"} =>
           \A a \in ModelAccountIds :
              LET other == SummaryPayload(gtdResult,
                                          [functionCall.args EXCEPT !.accountId = a])
              IN  /\ other.result = functionResponsePayload.result
                  /\ other.message = functionResponsePayload.message
                  /\ other.unit = functionResponsePayload.unit
                  /\ other.accountOwner = functionResponsePayload.accountOwner
                  /\ other.accountNumber = functionResponsePayload.accountNumber )

C1_Witness ==
    /\ reqUserId = Str(UserA)
    /\ functionCall.args.accountId = Str(AcctB)
    /\ functionResponsePayload.kind = "summary"
    /\ functionResponsePayload.result.k = "number"
    /\ Len(queryLog) = 2

\* C2. If the ledger probe failed on all 3 attempts, getTransactionData
\* throws without having issued any query, and the request, which is in its
\* tool-execution step, is answered with 503 and nothing else.
C2_LedgerDownFails503 ==
    tcResult["ledger"] = "false" =>
        /\ attempts["ledger"] = maxRetries
        /\ queryLog = <<>>
        /\ gtdPc \in {"probing", "threw"}
        /\ chatState \in {"EXECUTING_TOOL", "DONE"}
        /\ (chatState = "DONE" =>
              /\ gtdPc = "threw"
              /\ Len(responses) = 1
              /\ responses[1].status = 503
              /\ responses[1].kind = "error")

C2_Witness ==
    /\ tcResult["ledger"] = "false"
    /\ tcResult["accounts"] = "true"
    /\ chatState = "DONE"
    /\ responses[1].status = 503

IdentityUnavailable ==
    \/ tcResult["accounts"] = "false"
    \/ userResult.status = "rejected"
    \/ (userResult.status = "fulfilled" /\ Len(userResult.rows) = 0)

\* C3. If the identity store is unavailable (its probe failed, its query
\* failed or it returned no row) while the ledger query returned rows,
\* getTransactionData returns, with the owner "Unknown" and one transaction
\* per ledger row.
C3_IdentityDownDegrades ==
    ( /\ gtdPc \in {"returned", "threw"}
      /\ tcResult["ledger"] = "true"
      /\ transactionResult.status = "fulfilled"
      /\ Len(transactionResult.rows) > 0
      /\ IdentityUnavailable )
    =>
    ( /\ gtdPc = "returned"
      /\ gtdResult.accountOwner = Unknown
      /\ Len(gtdResult.transactions) = Len(transactionResult.rows)
      /\ \A i \in 1..Len(transactionResult.rows) :
            gtdResult.transactions[i].transactionDate = transactionResult.rows[i].timestamp )

C3_Witness ==
    /\ gtdPc = "returned"
    /\ tcResult["accounts"] = "false"
    /\ gtdResult.accountOwner = Unknown
    /\ Len(gtdResult.transactions) = 2

\* C4. testConnection ends only by returning true or false. It calls
\* pool.connect() at most 3 times; while it runs, every earlier attempt has
\* failed; it returns true in the attempt whose connect and SELECT 1
\* succeeded, with no attempt after it, and false after the 3rd failure.
C4_TestConnectionOutcome ==
    \A p \in Pools :
        /\ connectCalls[p] <= maxRetries
        /\ attempts[p] <= maxRetries
        /\ (tcPc[p] \in {"race", "query"} =>
               tcResult[p] = "none" /\ connectCalls[p] = attempts[p] + 1)
        /\ (tcPc[p] = "delay" =>
               tcResult[p] = "none" /\ connectCalls[p] = attempts[p]
               /\ attempts[p] < maxRetries)
        /\ (tcPc[p] = "done" =>
               \/ tcResult[p] = "true" /\ connectCalls[p] = attempts[p] + 1
               \/ /\ tcResult[p] = "false"
                  /\ attempts[p] = maxRetries
                  /\ connectCalls[p] = maxRetries)

C4_Witness ==
    /\ tcResult["ledger"] = "true"
    /\ attempts["ledger"] = 2
    /\ connectCalls["ledger"] = 3
    /\ tcResult["accounts"] = "false"
    /\ attempts["accounts"] = 3

\* C5. When testConnection has returned, no client the pool handed out for
\* the call is still un-released.
C5_AllClientsReleased ==
    \A p \in Pools : tcPc[p] = "done" => held[p] = 0

\* The amount of a row as the claim reads it: the normalised amount, negated
\* when the row's source is the requested account.
ClaimSigned(row, tx, accountId) ==
    IF row.from_acct = accountId THEN Neg(tx.amount) ELSE tx.amount

\* C6. In the list getTransactionData returns, balance(t1) = signed(t1) and
\* balance(ti) = balance(t(i-1)) + signed(ti), the positions being those of
\* the rows as retrieved.
C6_RunningBalanceFold ==
    gtdPc = "returned" =>
        LET rows == transactionResult.rows
            txs  == gtdResult.transactions
        IN  /\ Len(txs) = Len(rows)
            /\ \A i \in 1..Len(txs) :
                  /\ txs[i].transactionDate = rows[i].timestamp
                  /\ ~isNaN(txs[i].balance)
                  /\ txs[i].balance =
                        IF i = 1 THEN ClaimSigned(rows[1], txs[1], gtdAccount)
                        ELSE Add(txs[i - 1].balance,
                                 ClaimSigned(rows[i], txs[i], gtdAccount))

C6_Witness ==
    /\ gtdPc = "returned"
    /\ Len(gtdResult.transactions) = 3
    /\ gtdResult.transactions[1].type = "Credit"
    /\ gtdResult.transactions[1].balance = F(5000)
    /\ gtdResult.transactions[2].type = "Debit"
    /\ gtdResult.transactions[2].balance = F(-5000)
    /\ gtdResult.transactions[3].balance = F(-5725)

\* C7. getTransactionData returns one entry per ledger row, in the order
\* retrieved (newest first), and an entry is a debit exactly when the row's
\* source account is the requested account, a credit otherwise.
C7_OrderAndDirection ==
    (gtdPc = "returned" /\ Len(transactionResult.rows) > 0) =>
        LET rows == transactionResult.rows
            txs  == gtdResult.transactions
        IN  /\ Len(txs) = Len(rows)
            /\ \A i \in 1..Len(txs) :
                  /\ txs[i].transactionDate = rows[i].timestamp
                  /\ txs[i].fromAccount = OrEmpty(rows[i].from_acct)
                  /\ txs[i].toAccount = OrEmpty(rows[i].to_acct)
                  /\ (i > 1 => txs[i - 1].transactionDate >= txs[i].transactionDate)
                  /\ txs[i].type \in {"Debit", "Credit"}
                  /\ (txs[i].type = "Debit" <=> rows[i].from_acct = gtdAccount)

C7_Witness ==
    /\ gtdPc = "returned"
    /\ Len(gtdResult.transactions) = 3
    /\ gtdResult.transactions[1].type = "Debit"
    /\ gtdResult.transactions[2].type = "Credit"
    /\ gtdResult.transactions[2].fromAccount = <<>>
    /\ gtdResult.transactions[3].fromAccount = gtdResult.transactions[3].toAccount

\* The steps the state machine of one request may take.
ChatEdge ==
    \/ chatState' = chatState
    \/ chatState = "RECEIVED" /\ chatState' \in {"AWAIT_INITIAL", "DONE"}
    \/ /\ chatState = "AWAIT_INITIAL" /\ chatState' = "DONE"
       /\ (firstReply'.received => ~firstReply'.hasCall)
    \/ /\ chatState = "AWAIT_INITIAL" /\ chatState' = "EXECUTING_TOOL"
       /\ firstReply'.received /\ firstReply'.hasCall
    \/ /\ chatState = "EXECUTING_TOOL" /\ chatState' = "AWAIT_FINAL"
       \* the tool result is sent, and only once the local execution is over
       /\ Len(sent') = 2
       /\ sent'[2].kind = "functionResponse"
       /\ sent'[2].response = functionResponsePayload'
       /\ (functionCall.name = "getTransactionSummary" =>
              gtdPc = "returned" /\ gtdPc' = "returned")
    \/ /\ chatState = "EXECUTING_TOOL" /\ chatState' = "DONE"
       \* only the failure of the local execution ends the request here
       /\ gtdPc = "threw"
       /\ responses'[Len(responses')].status \in {500, 503}
    \/ chatState = "AWAIT_FINAL" /\ chatState' = "DONE"

ChatCalls ==
    /\ Len(sent) <= 2
    /\ (chatState = "RECEIVED" => Len(sent) = 0)
    /\ (chatState \in {"AWAIT_INITIAL", "EXECUTING_TOOL"} => Len(sent) = 1)
    /\ (chatState = "AWAIT_FINAL" => Len(sent) = 2)
    \* a first reply with text and no function call: one model call, its text
    /\ ( (firstReply.received /\ ~firstReply.hasCall /\ firstReply.hasText) =>
            /\ chatState = "DONE"
            /\ Len(sent) = 1
            /\ responses = <<HttpResponse(200, "answer", directTextResponse)>> )
    \* a first reply with a function call: an answer is the second reply's text
    /\ ( (firstReply.received /\ firstReply.hasCall /\ chatState = "DONE"
          /\ responses[1].status = 200) =>
            /\ Len(sent) = 2
            /\ finalReply.received
            /\ responses = <<HttpResponse(200, "answer", JoinTexts(finalReply.texts))>> )

\* C8. A request goes AWAIT_INITIAL -> DONE with one model call when the
\* first reply has text and no function call, and AWAIT_INITIAL ->
\* EXECUTING_TOOL -> AWAIT_FINAL -> DONE when it has a function call; the
\* tool result is sent only after the local execution has finished, at most
\* two model calls are made, and the answer is the text of the second reply.
\* (A failed local execution ends the request from EXECUTING_TOOL with an
\* error status.)
C8_TwoTurnStateMachine == [][ChatEdge]_vars /\ []ChatCalls

C8_Witness ==
    /\ chatState = "DONE"
    /\ firstReply.hasCall
    /\ gtdPc = "returned"
    /\ Len(sent) = 2
    /\ finalReply.received
    /\ Len(finalReply.texts) = 2
    /\ responses[1].status = 200

\* C9. When the model asks for a function other than getTransactionSummary,
\* no store is touched, the model is sent a tool result whose payload is an
\* error naming the function, and the second turn is completed: its text is
\* answered with 200.
C9_UnknownFunction ==
    (firstReply.received /\ functionCall.present
     /\ functionCall.name # "getTransactionSummary")
    =>
    ( /\ NoStoreAccess
      /\ (chatState \in {"AWAIT_FINAL", "DONE"} =>
            /\ Len(sent) = 2
            /\ sent[2].kind = "functionResponse"
            /\ sent[2].name = functionCall.name
            /\ sent[2].response.kind = "error"
            /\ \E i \in 1..Len(sent[2].response.error) :
                  sent[2].response.error[i] = functionCall.name)
      /\ ((chatState = "DONE" /\ finalReply.received /\ finalReply.hasText) =>
            responses = <<HttpResponse(200, "answer", JoinTexts(finalReply.texts))>>) )

C9_Witness ==
    /\ functionCall.present
    /\ functionCall.name = "getAccountBalance"
    /\ chatState = "DONE"
    /\ finalReply.hasText
    /\ responses[1].status = 200

\* C10. When the first reply holds neither a function call nor any text
\* (no candidates, no content or no parts included), no second model call is
\* made, no store is touched, and the answer is the "could not understand"
\* error with status 500.
C10_NothingUnderstood ==
    (firstReply.received /\ ~firstReply.hasCall /\ ~firstReply.hasText)
    =>
    ( /\ chatState = "DONE"
      /\ Len(sent) = 1
      /\ NoStoreAccess
      /\ ~finalReply.received
      /\ responses = <<HttpResponse(500, "error",
            "Could not understand your request or retrieve relevant information.")>> )

C10_Witness ==
    /\ firstReply.received
    /\ firstReply.shape = "noCandidates"
    /\ chatState = "DONE"
    /\ responses[1].status = 500

\* C11. When the second reply of the model, the one that follows the tool
\* result, holds no text, the request is answered with the "could not
\* generate a final answer" error and status 500, never with 200.
C11_NoFinalTextFails500 ==
    (finalReply.received /\ ~finalReply.hasText)
    =>
    ( /\ chatState = "DONE"
      /\ Len(sent) = 2
      /\ sent[2].kind = "functionResponse"
      /\ responses = <<HttpResponse(500, "error",
            "Could not generate a final answer based on the data.")>> )

C11_Witness ==
    /\ finalReply.received
    /\ finalReply.shape = "parts"
    /\ Len(finalReply.texts) = 2
    /\ ~finalReply.hasText
    /\ gtdPc = "returned"
    /\ responses[1].status = 500

\* C12. A request whose userId or question is missing, not a string or blank
\* after trimming is answered 400 and nothing else: no message is sent to
\* the model and no store is probed or queried. The userId is checked first:
\* when it is invalid the error names it, whatever the question is.
C12_InvalidRequest400 ==
    ( (InvalidField(reqUserId) \/ InvalidField(reqQuestion)) /\ chatState # "RECEIVED" )
    =>
    ( /\ chatState = "DONE"
      /\ sent = <<>>
      /\ ~firstReply.received
      /\ NoStoreAccess
      /\ responses =
            << HttpResponse(400, "error",
                 IF InvalidField(reqUserId)
                 THEN "Invalid or missing userId in request body."
                 ELSE "Invalid or missing question in request body.") >> )

C12_Witness ==
    /\ reqUserId = Str(<<" ", " ">>)
    /\ reqQuestion = Num(7)
    /\ chatState = "DONE"
    /\ responses[1].status = 400

\* C13. On termination signals each pool's end() is invoked exactly once
\* before the process exits: never more than once, and once by the time the
\* process has exited, whatever signals are delivered and whenever.
C13_PoolsClosedExactlyOnce ==
    \A p \in Pools :
        /\ endCalls[p] <= 1
        /\ (exited => endCalls[p] = 1)

\* C14. When the process exits with code 0, no end() call on either pool is
\* still pending.
C14_ExitZeroAfterPoolsClosed ==
    (exited /\ exitCode = 0) =>
        \A k \in 1..Len(endPromise), p \in Pools : endPromise[k][p] # "pending"

\* a is b with some elements left out, the others in b's order.
RECURSIVE IsSubsequence(_, _)
IsSubsequence(a, b) ==
    IF a = <<>> THEN TRUE
    ELSE IF b = <<>> THEN FALSE
    ELSE IF Head(a) = Head(b) THEN IsSubsequence(Tail(a), Tail(b))
    ELSE IsSubsequence(a, Tail(b))

\* The payload was built by processTransactionDataForAI.
Summarised == chatState = "AWAIT_FINAL" /\ functionResponsePayload.kind = "summary"

\* What filterTransactions returns for the request at hand.
Filtered == filterTransactions(gtdResult.transactions, reqUserId, functionCall.args)

Passing ==
    { i \in 1..Len(gtdResult.transactions) :
        KeepTransaction(gtdResult.transactions[i], functionCall.args) }

NoFilters ==
    \A f \in {"recipient", "sender", "startDate", "endDate", "category",
              "transactionType", "merchantName"} : functionCall.args[f] = Undef

\* C16. Whatever the summaryType (count, total_amount, list or one the
\* backend does not know), when no transaction passes the filters the result
\* is the empty list with a non-empty message, never a number.
C16_EmptyResultIsListWithMessage ==
    (Summarised /\ Passing = {}) =>
        /\ functionResponsePayload.result = RList(<<>>)
        /\ functionResponsePayload.result.k # "number"
        /\ functionResponsePayload.unit = ""
        /\ functionResponsePayload.message.text # ""

C16_Witness ==
    /\ Summarised
    /\ Passing = {}
    /\ Len(gtdResult.transactions) = 2
    /\ functionCall.args.summaryType = sCount
    /\ functionCall.args.recipient = Undef
    /\ Truthy(functionCall.args.startDate)
    /\ functionResponsePayload.result = RList(<<>>)

\* C17. When no transaction passes the filters, the message names the first
\* supplied filter in the order category, merchant, date range (startDate
\* and endDate); when none of them was supplied it is the generic message.
C17_EmptyMessagePreference ==
    (Summarised /\ Passing = {}) =>
        LET p == functionCall.args
        IN  functionResponsePayload.message =
              IF Truthy(p.category)
              THEN Msg("No transactions found in the category.", p.category.v, <<>>)
              ELSE IF Truthy(p.merchantName)
              THEN Msg("No transactions found with.", p.merchantName.v, <<>>)
              ELSE IF Truthy(p.startDate) /\ Truthy(p.endDate)
              THEN Msg("No transactions found between.", p.startDate.v, p.endDate.v)
              ELSE Msg("No transactions found matching your criteria.", <<>>, <<>>)

\* C18. With summaryType "count" and at least one transaction passing the
\* filters, the result is the number of transactions that pass them, with
\* unit "count"; without filters that is the number of transactions fetched.
C18_CountIsFilteredLength ==
    (Summarised /\ functionCall.args.summaryType = sCount /\ Passing # {}) =>
        /\ functionResponsePayload.result = RNum(F(100 * Cardinality(Passing)))
        /\ functionResponsePayload.unit = "count"
        /\ (NoFilters =>
              functionResponsePayload.result.num = F(100 * Len(transactionResult.rows)))

C18_Witness ==
    /\ Summarised
    /\ functionCall.args.summaryType = sCount
    /\ Len(gtdResult.transactions) = 3
    /\ Cardinality(Passing) = 2
    /\ functionResponsePayload.result = RNum(F(200))

\* The sum of the amounts of the first i fetched transactions that pass the
\* filters and have the requesting account as source or destination.
RECURSIVE ClaimTotal(_)
ClaimTotal(i) ==
    IF i = 0 THEN F(0)
    ELSE LET tx == gtdResult.transactions[i]
         IN  Add(ClaimTotal(i - 1),
                 IF /\ i \in Passing
                    /\ (Str(tx.fromAccount) = reqUserId \/ Str(tx.toAccount) = reqUserId)
                 THEN tx.amount
                 ELSE F(0))

\* C19. With summaryType "total_amount" the result is the sum of the amounts,
\* none negated, of the transactions that pass the filters and have the
\* requesting account as source or destination; a passing transaction with
\* the account on neither side adds 0.
C19_TotalAmountFaceValue ==
    (Summarised /\ functionCall.args.summaryType = sTotalAmount /\ Passing # {}) =>
        /\ functionResponsePayload.result = RNum(ClaimTotal(Len(gtdResult.transactions)))
        /\ functionResponsePayload.unit = "currency"

C19_Witness ==
    /\ Summarised
    /\ functionCall.args.summaryType = sTotalAmount
    /\ Cardinality(Passing) = 3
    /\ gtdResult.transactions[1].type = "Debit"
    /\ gtdResult.transactions[2].toAccount = UserA
    /\ gtdResult.transactions[3].fromAccount = AcctB
    /\ gtdResult.transactions[3].toAccount = AcctC
    /\ functionResponsePayload.result = RNum(F(725 + 5000))

\* Every fetched row has the requested account as source or destination, as
\* the ledger query guarantees.
RowsOfAccount ==
    \A i \in 1..Len(transactionResult.rows) :
        \/ transactionResult.rows[i].from_acct = gtdAccount
        \/ transactionResult.rows[i].to_acct = gtdAccount

\* The direction getTransactionData gave the transaction, as an argument value.
DirectionOf(tx) == IF tx.type = "Debit" THEN sDebit ELSE sCredit

\* C20. In the pipeline of getTransactionData and processTransactionDataForAI
\* a transactionType argument restricts the transactions that count: with
\* "debit" no credit of the account is counted, summed or listed, and with
\* "credit" no debit is.
C20_TransactionTypeRestricts ==
    (Summarised /\ RowsOfAccount /\ Truthy(functionCall.args.transactionType)) =>
        LET T == gtdResult.transactions
            wanted == { i \in Passing : DirectionOf(T[i]) = functionCall.args.transactionType }
        IN  /\ \A i \in 1..Len(Filtered) :
                  DirectionOf(Filtered[i]) = functionCall.args.transactionType
            /\ (functionResponsePayload.unit = "count" =>
                  functionResponsePayload.result.num = F(100 * Cardinality(wanted)))
            /\ (functionResponsePayload.result.k = "list" =>
                  Len(functionResponsePayload.result.list) = Cardinality(wanted))

\* The result of a payload as the model receives it: the text of a number.
DeliveredNumber == JSONNumber(functionResponsePayload.result.num.c)

\* C21. The result of total_amount is delivered formatted to two decimal
\* places, as formatCurrency formats an amount.
C21_TotalFormattedTwoDecimals ==
    ( /\ Summarised
      /\ RowsOfAccount
      /\ functionCall.args.summaryType = sTotalAmount
      /\ functionResponsePayload.unit = "currency" )
    =>
    ( /\ ~isNaN(functionResponsePayload.result.num)
      /\ DeliveredNumber = formatCurrency(functionResponsePayload.result.num) )

\* The payload the handler would build had the model asked for summaryType "list".
PayloadAsList ==
    SummaryPayload(gtdResult, [functionCall.args EXCEPT !.summaryType = sList])

\* C22. A summaryType other than count, total_amount and list, a missing one
\* included, gives the same result and message as summaryType "list", for
\* every transaction list and every set of filters.
C22_FallbackEqualsList ==
    (Summarised /\ functionCall.args.summaryType \notin {sCount, sTotalAmount, sList}) =>
        /\ functionResponsePayload.result = PayloadAsList.result
        /\ functionResponsePayload.message = PayloadAsList.message
        /\ functionResponsePayload.unit = PayloadAsList.unit

C22_Witness ==
    /\ Summarised
    /\ functionCall.args.summaryType = Undef
    /\ Truthy(functionCall.args.sender)
    /\ Len(gtdResult.transactions) = 3
    /\ Cardinality(Passing) = 2
    /\ Len(functionResponsePayload.result.list) = 2
    /\ functionResponsePayload.message.text = "Found matching transactions."

\* C23. When the ledger probe succeeded and the ledger query then failed,
\* getTransactionData throws, whatever the identity query returned, an error
\* whose message includes the message of the query error, and the request is
\* answered with 500, not 503.
C23_LedgerQueryFails500 ==
    ( /\ tcResult["ledger"] = "true"
      /\ transactionResult.status = "rejected"
      /\ gtdPc \in {"returned", "threw"} )
    =>
    ( /\ gtdPc = "threw"
      /\ \E i \in 1..Len(gtdError) : gtdError[i] = transactionResult.message
      /\ chatState \in {"EXECUTING_TOOL", "DONE"}
      /\ (chatState = "DONE" =>
            /\ Len(responses) = 1
            /\ responses[1].kind = "error"
            /\ responses[1].status = 500) )

\* C24. When params.sender is set, every transaction filterTransactions
\* keeps has a source equal to it, letter case aside; a transaction without
\* a source is not kept.
C24_SenderFilter ==
    (Summarised /\ RowsOfAccount /\ Truthy(functionCall.args.sender)) =>
        \A i \in 1..Len(Filtered) :
            /\ Filtered[i].fromAccount # <<>>
            /\ toLowerCase(Filtered[i].fromAccount) = toLowerCase(functionCall.args.sender.v)

\* The lowercased merchant name is part of the lowercased text.
MerchantIn(text) ==
    includes(toLowerCase(text), toLowerCase(functionCall.args.merchantName.v))

\* C25. When params.merchantName is set, a transaction is kept only if the
\* lowercased name is a substring of its lowercased source or destination;
\* a transaction with neither a source nor a destination is never kept.
C25_MerchantFilter ==
    (Summarised /\ Truthy(functionCall.args.merchantName)) =>
        \A i \in 1..Len(Filtered) :
            /\ MerchantIn(Filtered[i].fromAccount) \/ MerchantIn(Filtered[i].toAccount)
            /\ ~(Filtered[i].fromAccount = <<>> /\ Filtered[i].toAccount = <<>>)

C25_Witness ==
    /\ Summarised
    /\ \A f \in {"recipient", "sender", "startDate", "endDate", "category",
                 "transactionType"} : functionCall.args[f] = Undef
    /\ Truthy(functionCall.args.merchantName)
    /\ Len(gtdResult.transactions) = 3
    /\ \E i \in 1..3 : /\ gtdResult.transactions[i].fromAccount = <<>>
                       /\ gtdResult.transactions[i].toAccount = <<>>
    /\ Len(Filtered) = 1
    /\ Filtered[1].toAccount = AcctC
    /\ ~includes(Filtered[1].toAccount, functionCall.args.merchantName.v)

\* The instant t lies in the range of the request, each bound taken when its
\* date is set: from 00:00:00.000 of the startDate day through 23:59:59.999
\* of the endDate day, the days being those of a clock off hours from UTC.
InClaimedRange(t, off) ==
    LET p == functionCall.args
    IN  /\ (Truthy(p.startDate) => DateOf(p.startDate.v).c - off <= t)
        /\ (Truthy(p.endDate) => t <= DateOf(p.endDate.v).c + DayMs - 1 - off)

\* The fetched transactions are kept exactly when they lie in the range.
KeptIffInRange(off) ==
    \A i \in 1..Len(gtdResult.transactions) :
        (i \in Passing) <=> InClaimedRange(gtdResult.transactions[i].transactionDate, off)

\* C26. With a date range set, a transaction is kept if and only if its
\* timestamp lies between 00:00:00.000 of the startDate calendar day and
\* 23:59:59.999 of the endDate calendar day, both inclusive; the calendar
\* days are read as UTC days or as the server's local days.
C26_DateRangeInclusive ==
    ( /\ Summarised
      /\ Truthy(functionCall.args.startDate)
      /\ Truthy(functionCall.args.endDate) )
    =>
    ( KeptIffInRange(0) \/ KeptIffInRange(tzOffset) )

\* C27. In the pipeline every entry of a "list" result carries the
\* direction of its transaction (debit or credit) and shows source and
\* destination only by their last four characters, and the message states
\* the number of entries, which is the number of transactions that passed
\* the filters.
C27_ListEntries ==
    ( /\ Summarised
      /\ RowsOfAccount
      /\ functionCall.args.summaryType = sList
      /\ Passing # {} )
    =>
    LET entries == functionResponsePayload.result.list
    IN  /\ functionResponsePayload.result.k = "list"
        /\ Len(entries) = Cardinality(Passing)
        /\ functionResponsePayload.message.a = NatToChars(Len(entries))
        /\ \A i \in 1..Len(entries) :
              /\ Len(entries[i].from) <= 4
              /\ Len(entries[i].to) <= 4
              /\ entries[i].from = Filtered[i].fromAccountLastFour
              /\ entries[i].to = Filtered[i].toAccountLastFour
              /\ Truthy(entries[i].type)
              /\ toLowerCase(entries[i].type.v) = DirectionOf(Filtered[i]).v

\* C28. Every attempt of testConnection ends within its timeout, so that a
\* call returns even when the store never answers: eventually both calls
\* have returned.
C28_TestConnectionReturns == <>(\A p \in Pools : tcPc[p] = "done")

C30_IdentityQuerySkipped ==
    ( /\ tcResult["accounts"] = "false"
      /\ tcResult["ledger"] = "true"
      /\ gtdPc \in {"querying", "returned", "threw"} )
    =>
    ( /\ \A i \in 1..Len(queryLog) : queryLog[i].pool # "accounts"
      /\ Len(queryLog) = 1
      /\ queryLog[1] = [pool |-> "ledger", param |-> gtdAccount]
      /\ userResult.status = "rejected"
      /\ gtdPc = "returned" =>
            /\ transactionResult.status = "fulfilled"
            /\ Len(gtdResult.transactions) = Len(transactionResult.rows)
            /\ \A i \in 1..Len(transactionResult.rows) :
                   gtdResult.transactions[i].transactionDate
                       = transactionResult.rows[i].timestamp
      /\ gtdPc = "threw" => transactionResult.status = "rejected" )

\* A call that returned ledger rows with the identity probe failed and a
\* single query issued.
C30_Witness ==
    /\ tcResult["accounts"] = "false"
    /\ tcResult["ledger"] = "true"
    /\ gtdPc = "returned"
    /\ Len(queryLog) = 1
    /\ Len(transactionResult.rows) > 0

\* C31. When the ledger query returns zero rows, getTransactionData returns
\* an empty transaction list with the resolved or "Unknown" owner, and /chat
\* sends the model a "no transactions" payload that carries no summary (no
\* result, unit or request parameters: the filter/aggregation engine was not
\* called), as the second message of the chat; the request then ends with
\* what the second turn gave.
C31_NoRowsShortCircuits ==
    ( /\ gtdPc = "returned"
      /\ Len(transactionResult.rows) = 0 )
    =>
    ( /\ gtdResult.transactions = <<>>
      /\ gtdResult.accountOwner =
            ( IF userResult.status = "fulfilled" /\ Len(userResult.rows) > 0
              THEN AccountOwner(userResult.rows[1])
              ELSE Unknown )
      /\ gtdResult.accountNumber = getLastFour(gtdAccount)
      /\ chatState \in {"EXECUTING_TOOL", "AWAIT_FINAL", "DONE"}
      /\ chatState \in {"AWAIT_FINAL", "DONE"} =>
            /\ functionResponsePayload =
                  [NoPayload EXCEPT
                     !.kind = "noTransactions",
                     !.message = Msg("No transactions found for your account.",
                                     <<>>, <<>>),
                     !.accountOwner = gtdResult.accountOwner,
                     !.accountNumber = gtdResult.accountNumber]
            /\ Len(sent) = 2
            /\ sent[2] = FunctionResponseMessage("getTransactionSummary",
                                                 functionResponsePayload)
      /\ chatState = "DONE" =>
            /\ Len(responses) = 1
            /\ \/ /\ finalReply.received
                  /\ responses[1].status \in {200, 500}
               \/ /\ ~finalReply.received
                  /\ responses[1] = HttpResponse(500, "error",
                        "An internal error occurred while processing your request.") )

\* A request answered from the second turn after a fetch that found no row.
C31_Witness ==
    /\ gtdPc = "returned"
    /\ Len(transactionResult.rows) = 0
    /\ functionResponsePayload.kind = "noTransactions"
    /\ chatState = "DONE"
    /\ finalReply.received
    /\ responses[1].status = 200

\* The parse of a row's amount column gives no number: a missing (NULL)
\* amount, or a text that does not start with a number.
InvalidAmount(row) == ~Truthy(row.amount) \/ isNaN(parseFloat(row.amount))

\* C32. For every ledger row, including rows whose amount is missing or not
\* a number, the normalized transaction's amount is a valid number, 0 for an
\* invalid or missing amount, and its formatted amount is "0.00" in that
\* case; no NaN reaches the running balance or a later aggregation (the
\* number sent to the model as the result of a summary).
C32_NoNaNDownstream ==
    /\ gtdPc = "returned" =>
          /\ Len(gtdResult.transactions) = Len(transactionResult.rows)
          /\ \A i \in 1..Len(gtdResult.transactions) :
                LET t   == gtdResult.transactions[i]
                    row == transactionResult.rows[i]
                IN  /\ ~isNaN(t.amount)
                    /\ ~isNaN(t.balance)
                    /\ InvalidAmount(row) =>
                          /\ t.amount = F(0)
                          /\ t.formattedAmount = <<"0", ".", "0", "0">>
                          /\ t.balance = (IF i = 1 THEN F(0)
                                          ELSE gtdResult.transactions[i - 1].balance)
    /\ functionResponsePayload.kind = "summary" =>
          ~isNaN(functionResponsePayload.result.num)

\* A total sent to the model for rows of which one has an unparsable amount
\* and another a missing one.
C32_Witness ==
    /\ gtdPc = "returned"
    /\ \E i \in 1..Len(transactionResult.rows) :
          transactionResult.rows[i].amount = ABad
    /\ \E i \in 1..Len(transactionResult.rows) :
          transactionResult.rows[i].amount = Undef
    /\ functionCall.args.summaryType = sTotalAmount
    /\ functionResponsePayload.kind = "summary"
    /\ functionResponsePayload.result.num # F(0)

\* What the claim says of the result r of getLastFour for the value x.
LastFourClaim(x, r) ==
    /\ Len(r) <= 4
    /\ (IsString(x) /\ Len(x.v) >= 4) => r = SubSeq(x.v, Len(x.v) - 3, Len(x.v))
    /\ (~IsString(x) \/ x.v = <<>>) => r = <<"*", "*", "*", "*">>
    /\ x = Str(LongAccount) => r = <<"7", "8", "9", "0">>

\* C33. getLastFour returns the last four characters of any string account
\* number of length at least 4 ("1234567890" gives "7890") and the mask
\* "****" for a missing, empty or non-string value, and its result never has
\* more than four characters: for the account number of the returned object
\* and for both account columns of every row.
C33_LastFour ==
    gtdPc = "returned" =>
        /\ LastFourClaim(gtdAccount, gtdResult.accountNumber)
        /\ Len(gtdResult.transactions) = Len(transactionResult.rows)
        /\ \A i \in 1..Len(gtdResult.transactions) :
              /\ LastFourClaim(transactionResult.rows[i].from_acct,
                               gtdResult.transactions[i].fromAccountLastFour)
              /\ LastFourClaim(transactionResult.rows[i].to_acct,
                               gtdResult.transactions[i].toAccountLastFour)

\* A returned object with a long source account and a NULL one.
C33_Witness ==
    /\ gtdPc = "returned"
    /\ Len(gtdResult.transactions) = 2
    /\ transactionResult.rows[1].from_acct = Str(LongAccount)
    /\ gtdResult.transactions[1].fromAccountLastFour = <<"7", "8", "9", "0">>
    /\ transactionResult.rows[2].from_acct = Undef
    /\ gtdResult.transactions[2].fromAccountLastFour = <<"*", "*", "*", "*">>

\* The request passed validation: userId and question are non-blank strings.
PassedValidation == ~InvalidField(reqUserId) /\ ~InvalidField(reqQuestion)

\* C34. Every /chat request that passes validation produces exactly one HTTP
\* response on every path (direct text, tool path, unrecognized tool, missing
\* text, model call throwing, fetch throwing): there are never two responses,
\* and the handler has ended exactly when there is one.
C34_ExactlyOneResponse ==
    PassedValidation =>
        /\ Len(responses) <= 1
        /\ chatState = "DONE" <=> Len(responses) = 1

\* A request answered once after the fetch threw.
C34_Witness ==
    /\ PassedValidation
    /\ chatState = "DONE"
    /\ gtdPc = "threw"
    /\ Len(responses) = 1
    /\ responses[1].status \in {500, 503}

\* The fixed texts of the catch block of /chat.
UnavailableResponse ==
    HttpResponse(503, "error",
        "The service is temporarily unavailable. Please try again in a few minutes.")

InternalErrorResponse ==
    HttpResponse(500, "error",
        "An internal error occurred while processing your request.")

\* The part of C35 that does not depend on which of the two statuses is used.
FetchThrowsGeneric ==
    gtdPc = "threw" =>
        /\ chatState \in {"EXECUTING_TOOL", "DONE"}
        /\ Len(sent) = 1
        /\ sent[1].kind = "question"
        /\ functionResponsePayload = NoPayload
        /\ ~finalReply.received
        /\ chatState = "DONE" =>
              /\ Len(responses) = 1
              /\ responses[1] \in {UnavailableResponse, InternalErrorResponse}

\* C35. When getTransactionData throws during tool execution, /chat leaves
\* the state machine without entering AWAIT_FINAL: no tool-result message is
\* sent to the model, and the caller receives only a fixed generic message,
\* with status 503 when the probe failed and 500 for any other failure,
\* never the raw store or SDK error text.
C35_FetchThrowsGenericStatus ==
    /\ FetchThrowsGeneric
    /\ (gtdPc = "threw" /\ chatState = "DONE") =>
          responses[1] = ( IF tcResult["ledger"] = "false"
                           THEN UnavailableResponse
                           ELSE InternalErrorResponse )

\* The texts a first reply of the model can hold in its parts.
FirstTexts == { p.text : p \in FirstParts } \ {""}

\* C36. If the first model response contains both text parts and a
\* function-call part, the function call wins: the tool path is taken (the
\* fetch is called, or the error payload of an unknown function is sent to
\* the model) and the text of the first response is never returned to the
\* caller: an answer is the text of the second reply.
C36_FunctionCallWins ==
    (firstReply.received /\ firstReply.hasCall /\ firstReply.hasText)
    =>
    ( /\ functionCall.present
      /\ chatState \in {"EXECUTING_TOOL", "AWAIT_FINAL", "DONE"}
      /\ chatState \in {"AWAIT_FINAL", "DONE"} =>
            \/ gtdPc # "idle"
            \/ (Len(sent) = 2 /\ sent[2].kind = "functionResponse")
      /\ \A i \in 1..Len(responses) :
            /\ \A t \in FirstTexts :
                  /\ responses[i].text # t
                  /\ responses[i].text # t \o t
            /\ responses[i].kind = "answer" =>
                  /\ finalReply.received
                  /\ responses[i].text = JoinTexts(finalReply.texts) )

\* A request whose first reply had a text part before the function call and
\* that was answered from the second reply.
C36_Witness ==
    /\ firstReply.received
    /\ firstReply.hasCall
    /\ firstReply.hasText
    /\ directTextResponse # ""
    /\ chatState = "DONE"
    /\ finalReply.received
    /\ responses[1].kind = "answer"

\* C37. getTransactionData issues no ledger or identity query until both
\* store probes have returned. The two probes are started together; while
\* one of them is still running no query has been issued, whatever the other
\* returned; and once a query has been issued each probe has returned true,
\* or false after its 3 attempts.
C37_QueriesAfterBothProbes ==
    /\ (tcPc["ledger"] = "idle") <=> (tcPc["accounts"] = "idle")
    /\ (\E p \in Pools : tcPc[p] # "done") =>
          /\ queryLog = <<>>
          /\ transactionResult.status = "pending"
          /\ gtdPc \in {"idle", "probing", "threw"}
    /\ queryLog # <<>> =>
          \A p \in Pools :
             /\ tcPc[p] = "done"
             /\ \/ tcResult[p] = "true" /\ attempts[p] < maxRetries
                \/ tcResult[p] = "false" /\ attempts[p] = maxRetries

\* The ledger query issued after a ledger probe that succeeded at once and
\* an identity probe that used its 3 attempts.
C37_Witness ==
    /\ queryLog # <<>>
    /\ queryLog[1].pool = "ledger"
    /\ attempts["ledger"] = 0
    /\ tcResult["ledger"] = "true"
    /\ attempts["accounts"] = maxRetries
    /\ tcResult["accounts"] = "false"

=============================================================================
